---- MODULE Spec2Model ----
(***************************************************************************)
(* Model of the data layer of hvq-bless-directorio:                        *)
(*   - ApiService.request, the HTTP gateway with its 30 s in-memory cache  *)
(*     (src/lib/constants.ts),                                             *)
(*   - ApiService.getAgendasPorMedico and getAgendasDetalladasPorMedico,   *)
(*     the schedule orchestrator (src/lib/constants.ts),                   *)
(*   - useDoctorsCache, the 24 h doctor-list cache kept in localStorage    *)
(*     (src/unnamed/part_005),                                             *)
(*   - SpecialtiesPage.fetchSpecialties, the 60 s specialty-list cache     *)
(*     kept in sessionStorage (src/app/specialties/page.tsx),              *)
(*   - getAccessToken, refreshAuthTokenPublic and clearAuthTokens, the     *)
(*     token cache (src/lib/auth.ts),                                      *)
(*   - useDoctorSchedule with useDoctorData, the doctor-schedule view hook *)
(*     (src/unnamed/part_003, src/hooks/use-mobile.tsx),                   *)
(*   - useAgendas, the floor list of the agendas view                      *)
(*     (src/unnamed/part_002),                                             *)
(*   - the pure functions slugify, isProcedure / isConsulta and toHHmm,    *)
(*     the day selectors of useDoctorScheduleUI and the floor text of an   *)
(*     emitted schedule entry.                                             *)
(* Each subsystem has its own specification over the shared variables; a   *)
(* specification leaves the variables of the other subsystems unchanged.   *)
(***************************************************************************)
EXTENDS Integers, Sequences, FiniteSets, TLC

(***************************************************************************)
(* Bounds of the model.                                                    *)
(***************************************************************************)
\* number of gateway calls one behaviour starts
MaxCalls == 2
\* number of clock advances in one behaviour
MaxTicks == 1
\* length of the specialty list the backend serves
MaxSpecialties == 2
\* number of words in a visit-type text
MaxTipoWords == 2
\* length of the texts slugify is applied to
MaxSlugLen == 3
\* number of pieces in a time text
MaxTimeParts == 5
\* number of calls into the authentication module in one behaviour
MaxAuthCalls == 2

(***************************************************************************)
(* Program constants.                                                      *)
(***************************************************************************)
\* constants.ts:59  Date.now() - cached.ts < 30000
CACHE_TTL == 30000
\* config.ts:15     timeout: 30000
TIMEOUT == 30000

\* "no message key" of an ApiResponse, and the null data of a failed one
Undefined == "<undefined>"
NullData == "<null>"

(***************************************************************************)
(* State                                                                   *)
(***************************************************************************)
\* the HTTP gateway (and the clock)
VARIABLES
  now,            \* Date.now(), in ms
  ticks,          \* clock advances so far
  inMemoryCache,  \* cache key -> NoEntry or [ts, data]
  calls,          \* call id -> the activation record of one request()
  lastOk          \* history: cache key -> the last network GET that got a 2xx
                  \* answer, and when it completed

gwVars == <<now, ticks, inMemoryCache, calls, lastOk>>

\* the orchestrator
VARIABLES
  oqPc,             \* where getAgendasDetalladasPorMedico stands
  oqIn,             \* its arguments
  agCall,           \* the running or last activation of getAgendasPorMedico
  agendasRes,       \* agendasRes of constants.ts:255
  fan,              \* medicosRes, consultoriosRes, edificiosRes, diasRes
  agendasFromProv,  \* constants.ts:264, 278
  pisos,            \* building code -> state of its getPisosEdificio call,
                    \* and (history) how often it was invoked
  invoked,          \* history: how often each of the five fetches was invoked
  oqOut             \* the value returned

oqVars == <<oqPc, oqIn, agCall, agendasRes, fan, agendasFromProv, pisos, invoked, oqOut>>

\* the part of the orchestrator after the fetches, applied to drawn inputs
VARIABLES
  emIn,   \* codigoPrestador, especialidadId and the slot list fetched
  emOut   \* the entries emitted for them

emVars == <<emIn, emOut>>

\* the doctor-list cache hook
VARIABLES
  storage,  \* localStorage['hvq_doctors_cache']
  hook,     \* doctors, loading, error, isFromCache of the latest hook instance
  mounted,  \* whether that instance is mounted
  gen,      \* number of instances mounted so far
  loads,    \* load id -> the activation record of one loadDoctors()
  hidden    \* history: the page event ("pagehide", "beforeunload") handled
            \* last with no load started since, or "no"

dcVars == <<storage, hook, mounted, gen, loads, hidden>>

\* the specialties page
VARIABLES
  session,  \* sessionStorage['specialties_agenda_cache_v5']
  spView,   \* specialties, loading, error of the page
  spRun     \* where fetchSpecialties stands, and (history) what it found
            \* in the storage and whether it went to the backend

spVars == <<session, spView, spRun>>

\* the authentication module
VARIABLES
  accessToken,   \* auth.ts:6, '' when none is cached
  refreshToken,  \* auth.ts:7
  authCalls      \* call id -> the activation record of one getAccessToken()
                 \* or refreshAuthTokenPublic()

auVars == <<accessToken, refreshToken, authCalls>>

\* the doctor-schedule view hook
VARIABLES
  shView,    \* the state the hook returns
  shParams,  \* the (doctorSlug, specialtySlug) the hook is rendered with
  shAlive,   \* whether the component is mounted
  shLoads    \* load id -> the activation record of one loadData()

shVars == <<shView, shParams, shAlive, shLoads>>

\* the agendas view hook
VARIABLES
  agState,      \* pisos and error of the state of useAgendas
  agFilters,    \* edificioSeleccionado, pisoSeleccionado
  agFloorLoads  \* load id -> the activation record of one loadFloors()

agVars == <<agState, agFilters, agFloorLoads>>

\* a pure function applied to a drawn input
VARIABLES
  fnIn,   \* the argument
  fnOut   \* the value returned, once applied

fnVars == <<fnIn, fnOut>>

\* the variables of the subsystems below the doctor-list cache
restVars == <<spVars, auVars, shVars, agVars, fnVars>>

vars == <<gwVars, oqVars, emVars, dcVars, restVars>>

\* what the actions of one subsystem leave alone
spOthers == <<gwVars, oqVars, emVars, dcVars, auVars, shVars, agVars, fnVars>>
auOthers == <<gwVars, oqVars, emVars, dcVars, spVars, shVars, agVars, fnVars>>
shOthers == <<gwVars, oqVars, emVars, dcVars, spVars, auVars, agVars, fnVars>>
agOthers == <<gwVars, oqVars, emVars, dcVars, spVars, auVars, shVars, fnVars>>
fnOthers == <<gwVars, oqVars, emVars, dcVars, spVars, auVars, shVars, agVars>>

(***************************************************************************)
(* HTTP gateway: ApiService.request                                        *)
(***************************************************************************)

CallIds == 1..MaxCalls
Endpoints == {"/api/medicos", "/api/catalogos/dias"}
\* options.method; callers inside ApiService never set it
NoMethod == "<none>"
Methods == {NoMethod, "GET", "POST"}
\* the (endpoint, method) pairs the model issues
Requests ==
  {<<"/api/medicos", NoMethod>>, <<"/api/medicos", "POST">>,
   <<"/api/catalogos/dias", NoMethod>>}
\* bodies the backend serves for a 2xx answer
Payloads == {"d1", "d2"}
Statuses == {404, 500}

NoEntry == [ts |-> -1, data |-> NullData]
NoCall == 0
NoLast == [call |-> NoCall, at |-> -1]

\* constants.ts:55
IsGet(method) == method = NoMethod \/ method = "GET"
\* constants.ts:56  `${config.method || 'GET'}:${url}`
CacheKey(method, ep) == <<IF method = NoMethod THEN "GET" ELSE method, ep>>
CacheKeys == {CacheKey(m, e) : m \in Methods, e \in Endpoints}

\* constants.ts:58-59; the mutant has the age comparison the wrong way round
CacheFreshReversed(entry, t) == entry # NoEntry /\ t - entry.ts > CACHE_TTL
CacheFresh(entry, t) == entry # NoEntry /\ t - entry.ts < CACHE_TTL

(* Errors a fetch can reject with.  isError is `instanceof Error`; cause is  *)
(* kept for the properties only.                                            *)
TimeoutError == [isError |-> TRUE, name |-> "AbortError", message |-> "timeout", cause |-> "timeout"]
ExternalAbortError == [isError |-> TRUE, name |-> "AbortError", message |-> "signal is aborted without reason", cause |-> "external"]
NetworkError == [isError |-> TRUE, name |-> "TypeError", message |-> "Failed to fetch", cause |-> "network"]
NoError == [isError |-> FALSE, name |-> "", message |-> "", cause |-> "none"]
FetchErrors == {TimeoutError, ExternalAbortError, NetworkError}

Ok(data) == [success |-> TRUE, data |-> data, message |-> Undefined]
Fail(msg) == [success |-> FALSE, data |-> NullData, message |-> msg]
NoResult == [success |-> FALSE, data |-> NullData, message |-> "<pending>"]

\* constants.ts:117-135, the catch block
Catch(error) ==
  IF error.isError /\ error.name = "AbortError"
    THEN [threw |-> FALSE, value |-> Fail("Request timeout")]
    ELSE [threw |-> FALSE,
          value |-> Fail(IF error.isError THEN error.message ELSE "Unknown error")]

(* Response bodies.  json says whether response.json() parses; msg is the    *)
(* `message` field of a parsed error body; text is the raw text.            *)
NoMsg == "<no message>"
OkBodies ==
  {[json |-> TRUE, val |-> p, msg |-> NoMsg, text |-> "json"] : p \in Payloads}
    \cup {[json |-> FALSE, val |-> NullData, msg |-> NoMsg, text |-> "raw"]}
ErrBodies ==
  {[json |-> TRUE, val |-> "errobj", msg |-> m, text |-> "json"] : m \in {NoMsg, "", "bad"}}
    \cup {[json |-> FALSE, val |-> NullData, msg |-> NoMsg, text |-> t] : t \in {"", "raw"}}
NoBody == [json |-> FALSE, val |-> NullData, msg |-> NoMsg, text |-> ""]

HttpErrorMessage(status) == IF status = 404 THEN "HTTP error 404" ELSE "HTTP error 500"

\* response.text() after response.json() has consumed the body: it rejects,
\* and the .catch handler supplies the fallback (constants.ts:93, 108)
TextAfterJson(body, fallback) == fallback

\* constants.ts:91-100
ErrorResult(status, body) ==
  LET errorMessage == IF body.json THEN body.msg ELSE TextAfterJson(body, "")
  IN Fail(IF errorMessage \in {NoMsg, ""} THEN HttpErrorMessage(status) ELSE errorMessage)

\* constants.ts:104-112
OkData(body) == IF body.json THEN body.val ELSE TextAfterJson(body, NullData)

(* The activation record of one request().  netIssued (fetch reached the   *)
(* network), error (what fetch rejected with), prevOk and prevOkFresh (the  *)
(* last 2xx GET for the key when the call started, and whether it was less  *)
(* than 30 s old), status and body (the response read) are history for the  *)
(* properties.  signal is options.signal: "none", "live" or "aborted".      *)
NewCall ==
  [st |-> "new", ep |-> "", method |-> NoMethod, signal |-> "none",
   start |-> 0, netIssued |-> FALSE, timerPending |-> FALSE, listenerOn |-> FALSE,
   abortReason |-> NoError, ok |-> FALSE, status |-> 0, body |-> NoBody,
   error |-> NoError, result |-> NoResult, prevOk |-> NoCall, prevOkFresh |-> FALSE]

ClockInit ==
  /\ now = 1
  /\ ticks = 0

GwInit ==
  /\ inMemoryCache = [k \in CacheKeys |-> NoEntry]
  /\ calls = [c \in CallIds |-> NewCall]
  /\ lastOk = [k \in CacheKeys |-> NoLast]

\* the next unused call id
NextCall == IF \E c \in CallIds : calls[c].st = "new"
              THEN CHOOSE c \in CallIds : calls[c].st = "new" /\ \A d \in CallIds : d < c => calls[d].st # "new"
              ELSE NoCall

(* request(), from its entry to the first await: constants.ts:44-83.        *)
(* A GET that finds a fresh cache entry returns at once; any other call     *)
(* arms the controller, the external listener and the timer and calls       *)
(* fetch.  aborted says whether options.signal is already aborted.          *)
RequestStart(ep, method, hasSignal, aborted) ==
  LET c == NextCall
      key == CacheKey(method, ep)
      cached == inMemoryCache[key]
      base == [calls[c] EXCEPT !.ep = ep, !.method = method, !.start = now,
                               !.signal = IF ~hasSignal THEN "none"
                                          ELSE IF aborted THEN "aborted" ELSE "live",
                               !.prevOk = IF IsGet(method) THEN lastOk[key].call ELSE NoCall,
                               !.prevOkFresh = /\ IsGet(method)
                                               /\ lastOk[key] # NoLast
                                               /\ now - lastOk[key].at < CACHE_TTL]
  IN /\ UNCHANGED <<oqVars, emVars, restVars, dcVars>>
     /\ c # NoCall
     /\ aborted => hasSignal
     /\ IF IsGet(method) /\ CacheFresh(cached, now)
          THEN calls' = [calls EXCEPT ![c] = [base EXCEPT !.st = "resolved",
                                                           !.result = Ok(cached.data)]]
          ELSE calls' = [calls EXCEPT ![c] =
                 [base EXCEPT !.st = "fetching",
                              \* fetch with an aborted signal rejects without a request
                              !.netIssued = ~aborted,
                              !.abortReason = IF aborted THEN ExternalAbortError ELSE NoError,
                              !.listenerOn = hasSignal /\ ~aborted,
                              !.timerPending = TRUE]]
     /\ UNCHANGED <<now, ticks, inMemoryCache, lastOk>>

\* the external signal fires while the call is in flight; onExternalAbort of
\* constants.ts:67-69 runs if the listener is still registered
ExternalAbort(c) ==
  /\ UNCHANGED <<oqVars, emVars, restVars, dcVars>>
  /\ calls[c].st \in {"fetching", "body"}
  /\ calls[c].signal = "live"
  /\ calls' = [calls EXCEPT ![c].signal = "aborted",
                            ![c].abortReason =
                 IF calls[c].listenerOn /\ calls[c].abortReason = NoError
                   THEN ExternalAbortError ELSE @]
  /\ UNCHANGED <<now, ticks, inMemoryCache, lastOk>>

TimerDue(c) == calls[c].timerPending /\ now - calls[c].start >= TIMEOUT

\* the timer callback of constants.ts:77
TimeoutFires(c) ==
  /\ UNCHANGED <<oqVars, emVars, restVars, dcVars>>
  /\ TimerDue(c)
  /\ calls' = [calls EXCEPT ![c].timerPending = FALSE,
                            ![c].abortReason =
                               IF calls[c].abortReason = NoError /\ calls[c].st = "fetching"
                                 THEN TimeoutError ELSE @]
  /\ UNCHANGED <<now, ticks, inMemoryCache, lastOk>>

\* fetch resolves with a response: constants.ts:80-87
FetchResponds(c, ok) ==
  /\ UNCHANGED <<oqVars, emVars, restVars, dcVars>>
  /\ calls[c].st = "fetching"
  /\ calls[c].abortReason = NoError
  /\ calls' = [calls EXCEPT ![c].st = "body", ![c].ok = ok, ![c].timerPending = FALSE,
                            ![c].listenerOn = FALSE]
  /\ UNCHANGED <<now, ticks, inMemoryCache, lastOk>>

\* the body, of the given status and content, has been read: constants.ts:89-116
BodyRead(c, status, body) ==
  LET r == calls[c]
      key == CacheKey(r.method, r.ep)
  IN /\ UNCHANGED <<oqVars, emVars, restVars, dcVars>>
     /\ r.st = "body"
     /\ IF r.ok THEN body \in OkBodies /\ status = 200 ELSE body \in ErrBodies /\ status \in Statuses
     /\ IF r.ok
          THEN /\ calls' = [calls EXCEPT ![c].st = "resolved", ![c].status = status,
                                         ![c].body = body,
                                         ![c].result = Ok(OkData(body))]
               /\ IF IsGet(r.method)
                    THEN /\ inMemoryCache' = [inMemoryCache EXCEPT ![key] = [ts |-> now, data |-> OkData(body)]]
                         /\ lastOk' = [lastOk EXCEPT ![key] = [call |-> c, at |-> now]]
                    ELSE UNCHANGED <<inMemoryCache, lastOk>>
          ELSE /\ calls' = [calls EXCEPT ![c].st = "resolved", ![c].status = status,
                                         ![c].body = body,
                                         ![c].result = ErrorResult(status, body)]
               /\ UNCHANGED <<inMemoryCache, lastOk>>
     /\ UNCHANGED <<now, ticks>>

\* fetch rejects, with the abort reason or a network error: constants.ts:117-135
FetchRejects(c) ==
  LET r == calls[c]
      error == IF r.abortReason # NoError THEN r.abortReason ELSE NetworkError
      outcome == Catch(error)
  IN /\ UNCHANGED <<oqVars, emVars, restVars, dcVars>>
     /\ r.st = "fetching"
     /\ calls' = [calls EXCEPT ![c].st = IF outcome.threw THEN "threw" ELSE "resolved",
                               ![c].error = error,
                               ![c].result = outcome.value]
     /\ UNCHANGED <<now, ticks, inMemoryCache, lastOk>>

GwTimeSteps == {1, CACHE_TTL}

\* time passes; a due timer fires before the clock moves on
GwTick(d) ==
  /\ UNCHANGED <<oqVars, emVars, restVars, dcVars>>
  /\ ticks < MaxTicks
  /\ \A c \in CallIds : ~TimerDue(c)
  /\ now' = now + d
  /\ ticks' = ticks + 1
  /\ UNCHANGED <<inMemoryCache, calls, lastOk>>

(***************************************************************************)
(* Loosely typed backend values                                            *)
(*                                                                         *)
(* A field of a backend record is absent (undefined/null), a number or a   *)
(* string; a string is a sequence of one-character strings.                *)
(***************************************************************************)
Null == [t |-> "null", n |-> 0, s |-> <<>>]
Num(n) == [t |-> "num", n |-> n, s |-> <<>>]
Str(s) == [t |-> "str", n |-> 0, s |-> s]

DigitChars == <<"0", "1", "2", "3", "4", "5", "6", "7", "8", "9">>
IsDigitChar(ch) == \E i \in 1..Len(DigitChars) : DigitChars[i] = ch

\* Number.prototype.toString of a non-negative integer
RECURSIVE NumToStr(_)
NumToStr(n) == IF n < 10 THEN <<DigitChars[n + 1]>>
                         ELSE NumToStr(n \div 10) \o <<DigitChars[(n % 10) + 1]>>

\* String(v) of a number or a string
JsString(v) == IF v.t = "num" THEN NumToStr(v.n) ELSE v.s

\* a ?? b ?? ... ?? dflt : the first operand that is neither null nor undefined
RECURSIVE Coalesce(_, _)
Coalesce(vs, dflt) ==
  IF vs = <<>> THEN dflt
  ELSE IF Head(vs) # Null THEN Head(vs) ELSE Coalesce(Tail(vs), dflt)

\* String.prototype.trim
RECURSIVE TrimLeft(_)
TrimLeft(s) == IF s # <<>> /\ Head(s) = " " THEN TrimLeft(Tail(s)) ELSE s
RECURSIVE TrimRight(_)
TrimRight(s) == IF s # <<>> /\ s[Len(s)] = " " THEN TrimRight(SubSeq(s, 1, Len(s) - 1)) ELSE s
Trim(s) == TrimRight(TrimLeft(s))

\* /^\d+$/.test(s)
IsDigits(s) == s # <<>> /\ \A i \in 1..Len(s) : IsDigitChar(s[i])

\* Array.prototype.includes on a list of strings
Includes(list, x) == \E i \in 1..Len(list) : list[i] = x

\* the list inside a response: a bare array, or an object wrapping one in
\* `data`; anything else counts as the empty list (constants.ts:264-266)
NoList == [shape |-> "null", list |-> <<>>]
AsList(data) == IF data.shape \in {"array", "wrapped"} THEN data.list ELSE <<>>

OkList(data) == [success |-> TRUE, data |-> data, message |-> Undefined]
FailList(msg) == [success |-> FALSE, data |-> NoList, message |-> msg]
Pending == [success |-> FALSE, data |-> NoList, message |-> "<pending>"]

(***************************************************************************)
(* Orchestrator, the part after the fetches: constants.ts:487-716          *)
(***************************************************************************)
\* the specialty filter: absent, a scalar, or a list
NoFilter == [kind |-> "none", v |-> Null, l |-> <<>>]
Scalar(v) == [kind |-> "scalar", v |-> v, l |-> <<>>]
List(l) == [kind |-> "list", v |-> Null, l |-> l]

\* constants.ts:498-500
WantedSpecialtyIds(especialidadId) ==
  IF especialidadId.kind = "list"
    THEN [i \in 1..Len(especialidadId.l) |-> JsString(especialidadId.l[i])]
    ELSE <<JsString(especialidadId.v)>>

\* constants.ts:504-509
CodigoItemAgendamiento(a) ==
  Trim(JsString(Coalesce(<<a.codigo_item_agendamiento, a.id, a.codigo>>, Str(<<>>))))

\* constants.ts:502-518, the filter callback; the mutant forgets the filter
KeepForSpecialtyAlways(a, especialidadId) == TRUE
KeepForSpecialty(a, especialidadId) ==
  LET codigo == CodigoItemAgendamiento(a)
  IN IF codigo # <<>> /\ IsDigits(codigo)
       THEN Includes(WantedSpecialtyIds(especialidadId), codigo)
       ELSE FALSE

RECURSIVE FilterSeq(_, _)
FilterSeq(list, especialidadId) ==
  IF list = <<>> THEN <<>>
  ELSE (IF KeepForSpecialty(Head(list), especialidadId) THEN <<Head(list)>> ELSE <<>>)
         \o FilterSeq(Tail(list), especialidadId)

\* constants.ts:496-519
FilterBySpecialty(agendas, especialidadId) ==
  IF especialidadId.kind # "none" /\ Len(agendas) > 0
    THEN FilterSeq(agendas, especialidadId)
    ELSE agendas

\* constants.ts:523-525
PrestadorId(a) ==
  JsString(Coalesce(<<a.codigo_prestador, a.codigoPrestador, a.cd_prestador,
                      a.prestadorId, a.medicoId>>, Str(<<>>)))

\* constants.ts:528, the re-check of the provider; the mutant trusts the backend
BelongsToAnyone(a, providerCodeToUse) == TRUE
BelongsTo(a, providerCodeToUse) == PrestadorId(a) = providerCodeToUse

\* constants.ts:432-449, medicoPorId.get(key): the first doctor of the list
\* that carries the key under one of its seven id fields
DoctorKeys(m) ==
  {JsString(v) : v \in {m.id, m.codigo, m.codigoPrestador, m.codigo_prestador,
                        m.cd_prestador, m.prestadorId, m.medicoId} \ {Null}} \ {<<>>}
\* the `especialidades` of a doctor record: no array, or an array whose
\* entries are objects or plain values
NoEspecialidades == [isArray |-> FALSE, list |-> <<>>]
EspecialidadesOf(list) == [isArray |-> TRUE, list |-> list]
EspObject(especialidadId, id, codigo, descripcion, nombre) ==
  [isObject |-> TRUE, especialidadId |-> especialidadId, id |-> id, codigo |-> codigo,
   descripcion |-> descripcion, nombre |-> nombre, value |-> Null]
EspPlain(v) ==
  [isObject |-> FALSE, especialidadId |-> Null, id |-> Null, codigo |-> Null,
   descripcion |-> Null, nombre |-> Null, value |-> v]

NoDoctor ==
  [id |-> Null, codigo |-> Null, codigoPrestador |-> Null, codigo_prestador |-> Null,
   cd_prestador |-> Null, prestadorId |-> Null, medicoId |-> Null, nombres |-> Null,
   especialidades |-> NoEspecialidades]
RECURSIVE MedicoPorId(_, _)
MedicoPorId(medicos, key) ==
  IF medicos = <<>> THEN NoDoctor
  ELSE IF key \in DoctorKeys(Head(medicos)) THEN Head(medicos)
  ELSE MedicoPorId(Tail(medicos), key)

\* constants.ts:333-339, consultorioPorCodigo.get(code): the last room of the
\* catalog with that code
RoomOf(codigo, edificio, piso, des_piso) ==
  [codigo |-> codigo, codigo_edificio |-> edificio, piso |-> piso, CD_PISO |-> Null,
   codigo_piso |-> Null, des_piso |-> des_piso, DES_PISO |-> Null,
   descripcion_piso |-> Null]
NoRoom == RoomOf(Null, Null, Null, Null)
RECURSIVE ConsultorioPorCodigo(_, _)
ConsultorioPorCodigo(consultorios, code) ==
  IF consultorios = <<>> THEN NoRoom
  ELSE LET c == consultorios[Len(consultorios)]
       IN IF JsString(Coalesce(<<c.codigo>>, Str(<<>>))) = code /\ code # <<>>
            THEN c
            ELSE ConsultorioPorCodigo(SubSeq(consultorios, 1, Len(consultorios) - 1), code)

\* constants.ts:356-362, the distinct building codes the rooms refer to
EdificiosUnicos(consultorios) ==
  {JsString(Coalesce(<<consultorios[i].codigo_edificio>>, Str(<<>>))) : i \in 1..Len(consultorios)}
    \ {<<>>}

\* String(x) of an object without a toString of its own
ObjectObject == <<"[object Object]">>

\* constants.ts:626, 654: String(esp?.especialidadId ?? esp?.id ?? esp?.codigo ?? esp ?? '')
EspId(esp) ==
  IF esp.isObject
    THEN LET v == Coalesce(<<esp.especialidadId, esp.id, esp.codigo>>, Null)
         IN IF v = Null THEN ObjectObject ELSE JsString(v)
    ELSE IF esp.value = Null THEN <<>> ELSE JsString(esp.value)

\* whether a value is truthy
Truthy(v) == v # Null /\ v # Num(0) /\ v # Str(<<>>)

\* constants.ts:630-634, 658-662, 669-673: the label of a specialty entry, or
\* undefined for null, 0 and ''
EspLabel(esp) ==
  IF esp.isObject THEN Str(JsString(Coalesce(<<esp.descripcion, esp.nombre>>, Str(<<>>))))
  ELSE IF Truthy(esp.value) THEN Str(JsString(esp.value))
  ELSE Null

\* especialidades.find(esp => espId === codigoItemAgendamiento), then its
\* label; undefined when none is found
RECURSIVE FindEspLabel(_, _)
FindEspLabel(list, codigo) ==
  IF list = <<>> THEN Null
  ELSE IF EspId(Head(list)) = codigo THEN EspLabel(Head(list))
  ELSE FindEspLabel(Tail(list), codigo)

\* constants.ts:667-674, the label of the first specialty of the doctor; the
\* mutant has no such fallback
FirstEspLabelNone(especialidades) == Null
FirstEspLabel(especialidades) ==
  IF especialidades.isArray /\ Len(especialidades.list) > 0
    THEN EspLabel(especialidades.list[1])
    ELSE Null

\* constants.ts:602-674, the specialty label of a slot
Especialidad(a, especialidadId, medicoRaw) ==
  LET codigo == CodigoItemAgendamiento(a)
      especialidades == medicoRaw.especialidades
      \* constants.ts:606-636
      first == IF /\ especialidadId.kind # "none"
                  /\ codigo # <<>>
                  /\ Includes(WantedSpecialtyIds(especialidadId), codigo)
                 THEN FindEspLabel(especialidades.list, codigo)
                 ELSE Null
      \* constants.ts:639-664; a value that is no array is truthy here and
      \* counts as the empty list
      second == IF Truthy(first) THEN first
                ELSE IF codigo # <<>> /\ especialidades.isArray
                       THEN LET found == FindEspLabel(especialidades.list, codigo)
                            IN IF found # Null THEN found ELSE first
                       ELSE first
  IN IF Truthy(second) THEN second
     ELSE LET third == FirstEspLabel(especialidades)
          IN IF third # Null THEN third ELSE second

\* constants.ts:296-331, normalizarConsultorio, the fields of the chain
\* room -> building -> floor
NormalizarConsultorio(c) ==
  LET edificio == JsString(Coalesce(<<c.codigo_edificio>>, Str(<<>>)))
      des_piso == Coalesce(<<c.des_piso, c.DES_PISO, c.descripcion_piso>>, Null)
  IN [codigo_edificio |-> IF edificio # <<>> THEN Str(edificio) ELSE Null,
      piso |-> Coalesce(<<c.piso, c.CD_PISO>>, Null),
      des_piso |-> IF Truthy(des_piso) THEN Str(JsString(des_piso)) ELSE Null,
      raw |-> c]

\* constants.ts:363-384, the map of one building: absent when the request
\* failed or the list is empty, else code -> description, later entries
\* replacing earlier ones
HasMapPisos(res) == res.success /\ Len(res.data) > 0
RECURSIVE MapPisosGet(_, _)
MapPisosGet(pisosArray, key) ==
  IF pisosArray = <<>> THEN <<>>
  ELSE LET p == pisosArray[Len(pisosArray)]
           codigoPiso == JsString(Coalesce(<<p.codigo_piso>>, Str(<<>>)))
       IN IF codigoPiso # <<>> /\ codigoPiso = key
            THEN JsString(Coalesce(<<p.descripcion_piso>>, Str(<<>>)))
            ELSE MapPisosGet(SubSeq(pisosArray, 1, Len(pisosArray) - 1), key)

\* constants.ts:340-347, edificioPorCodigo.get(code): the last building of
\* the catalog with that code
NoBuilding == [codigo |-> Null, descripcion_edificio |-> Null, nombre |-> Null]
RECURSIVE EdificioPorCodigo(_, _)
EdificioPorCodigo(edificios, code) ==
  IF edificios = <<>> THEN NoBuilding
  ELSE LET e == edificios[Len(edificios)]
       IN IF JsString(Coalesce(<<e.codigo>>, Str(<<>>))) = code /\ code # <<>>
            THEN e
            ELSE EdificioPorCodigo(SubSeq(edificios, 1, Len(edificios) - 1), code)

\* constants.ts:540, String(consultorio?.codigo_edificio ?? '')
BuildingCode(found, consultorio) ==
  IF found THEN JsString(Coalesce(<<consultorio.codigo_edificio>>, Str(<<>>))) ELSE <<>>

\* constants.ts:543-556
EdificioDescripcion(found, consultorio, edificios) ==
  LET buildingCode == BuildingCode(found, consultorio)
      edificioRaw == EdificioPorCodigo(edificios, buildingCode)
  IN IF buildingCode # <<>> /\ edificioRaw # NoBuilding
       THEN JsString(Coalesce(<<edificioRaw.descripcion_edificio, edificioRaw.nombre>>,
                              Str(<<>>)))
       ELSE <<>>

\* constants.ts:561
PisoCodigo(found, consultorio) ==
  IF found
    THEN Coalesce(<<consultorio.piso, consultorio.raw.CD_PISO, consultorio.raw.codigo_piso>>,
                  Null)
    ELSE Null

PisoLiteral == <<"P", "i", "s", "o", " ">>

\* constants.ts:566-577, priority 1: the catalog of the building of the room
DescripcionDelCatalogo(found, consultorio, pisosRes) ==
  LET buildingCode == BuildingCode(found, consultorio)
      pisoCodigo == PisoCodigo(found, consultorio)
  IN IF buildingCode # <<>> /\ pisoCodigo # Null /\ buildingCode \in DOMAIN pisosRes
          /\ HasMapPisos(pisosRes[buildingCode])
       THEN MapPisosGet(pisosRes[buildingCode].data, JsString(pisoCodigo))
       ELSE <<>>
\* constants.ts:579-582, priority 2
DescripcionDelConsultorio(found, consultorio) ==
  IF found /\ Truthy(consultorio.des_piso) THEN JsString(consultorio.des_piso) ELSE <<>>
\* constants.ts:585-591, priority 3
RawPisoDesc(found, consultorio) ==
  IF found
    THEN LET rawPisoDesc == Coalesce(<<consultorio.raw.DES_PISO,
                                       consultorio.raw.descripcion_piso>>, Null)
         IN IF Truthy(rawPisoDesc) THEN JsString(rawPisoDesc) ELSE <<>>
    ELSE <<>>
\* constants.ts:594-597, the fallback
PisoDelCodigo(found, consultorio) ==
  LET pisoCodigo == PisoCodigo(found, consultorio)
  IN IF pisoCodigo # Null THEN PisoLiteral \o JsString(pisoCodigo) ELSE <<>>

\* constants.ts:563-597, pisoFormateado; the mutant asks the room before the
\* catalog
PisoFormateadoRoomFirst(found, consultorio, pisosRes) ==
  LET p1 == DescripcionDelConsultorio(found, consultorio)
      p2 == DescripcionDelCatalogo(found, consultorio, pisosRes)
      p3 == RawPisoDesc(found, consultorio)
  IN IF p1 # <<>> THEN p1
     ELSE IF p2 # <<>> THEN p2
     ELSE IF p3 # <<>> THEN p3
     ELSE PisoDelCodigo(found, consultorio)
PisoFormateado(found, consultorio, pisosRes) ==
  LET p1 == DescripcionDelCatalogo(found, consultorio, pisosRes)
      p2 == DescripcionDelConsultorio(found, consultorio)
      p3 == RawPisoDesc(found, consultorio)
  IN IF p1 # <<>> THEN p1
     ELSE IF p2 # <<>> THEN p2
     ELSE IF p3 # <<>> THEN p3
     ELSE PisoDelCodigo(found, consultorio)

(* constants.ts:521-708, the map callback for a slot that passed the check: *)
(* the entry carries the raw item and provider codes, the specialty label,  *)
(* the doctor's name, the room and building codes and the floor text; slot  *)
(* is the slot it was made from.                                            *)
Detallar(a, especialidadId, medicos, consultorios, pisosRes) ==
  LET consultorio == ConsultorioPorCodigo(consultorios,
                       JsString(Coalesce(<<a.codigo_consultorio>>, Str(<<>>))))
  IN [slot |-> a,
      especialidad |-> Especialidad(a, especialidadId, MedicoPorId(medicos, PrestadorId(a))),
      codigo_item_agendamiento |-> Coalesce(<<a.codigo_item_agendamiento, a.id, a.codigo>>, Null),
      codigo_prestador |-> a.codigo_prestador,
      medico |-> JsString(Coalesce(<<MedicoPorId(medicos, PrestadorId(a)).nombres>>, Str(<<>>))),
      consultorioCodigo |-> consultorio.codigo,
      piso |-> PisoFormateado(consultorio # NoRoom, NormalizarConsultorio(consultorio),
                              pisosRes),
      buildingCode |-> JsString(Coalesce(<<consultorio.codigo_edificio>>, Str(<<>>)))]

\* constants.ts:521-709, map then filter(Boolean)
RECURSIVE Detalladas(_, _, _, _, _, _)
Detalladas(agendas, providerCodeToUse, especialidadId, medicos, consultorios, pisosRes) ==
  IF agendas = <<>> THEN <<>>
  ELSE (IF BelongsTo(Head(agendas), providerCodeToUse)
          THEN <<Detallar(Head(agendas), especialidadId, medicos, consultorios, pisosRes)>>
          ELSE <<>>)
         \o Detalladas(Tail(agendas), providerCodeToUse, especialidadId, medicos,
                       consultorios, pisosRes)

\* constants.ts:487-709
Emit(agendas, codigoPrestador, especialidadId, medicos, consultorios, pisosRes) ==
  Detalladas(FilterBySpecialty(agendas, especialidadId),
             JsString(codigoPrestador), especialidadId, medicos, consultorios, pisosRes)

(***************************************************************************)
(* Backend data of the model                                               *)
(***************************************************************************)
\* longest slot list a schedule query answers with
MaxSlots == 2

S7 == Str(<<"7">>)
S8 == Str(<<"8">>)
S12 == Str(<<"1", "2">>)
S34 == Str(<<"3", "4">>)
SAb == Str(<<"a", "b">>)
SPad12 == Str(<<" ", "1", "2">>)
SRoomA == Str(<<"A">>)
SRoomB == Str(<<"B">>)

NoSlot ==
  [codigo_prestador |-> Null, codigoPrestador |-> Null, cd_prestador |-> Null,
   prestadorId |-> Null, medicoId |-> Null,
   codigo_item_agendamiento |-> Null, id |-> Null, codigo |-> Null,
   codigo_consultorio |-> Null]

\* the slots the schedule queries of the orchestrator model answer with
SlotsSmall ==
  {[NoSlot EXCEPT !.codigo_prestador = S7, !.codigo_item_agendamiento = Num(12),
                  !.codigo_consultorio = SRoomA],
   [NoSlot EXCEPT !.cd_prestador = Num(8), !.id = S34, !.codigo_consultorio = SRoomB]}

\* all sequences over S of length at most n
RECURSIVE SeqsUpTo(_, _)
SeqsUpTo(S, n) ==
  IF n = 0 THEN {<<>>}
  ELSE LET shorter == SeqsUpTo(S, n - 1)
       IN shorter \cup {Append(l, x) : l \in shorter, x \in S}

AgendaLists == SeqsUpTo(SlotsSmall, MaxSlots)

\* specialty entries of doctor records
EspCardio == EspObject(Null, Num(12), Null, Str(<<"C", "a", "r", "d">>), Null)
EspPedia == EspObject(S34, Null, Null, Null, Str(<<"P", "e", "d">>))
EspDerma == EspObject(Null, Null, Str(<<"9", "9">>), Str(<<"D", "e", "r", "m">>), Null)
EspBare == EspObject(Null, Null, Null, Null, Null)
EspEntries == {EspCardio, EspPedia, EspDerma, EspBare, EspPlain(S12), EspPlain(Num(0)), EspPlain(Null)}

Doctor7 ==
  [NoDoctor EXCEPT !.codigo_prestador = Num(7), !.nombres = Str(<<"D", "r", "7">>),
                   !.especialidades = EspecialidadesOf(<<EspCardio>>)]
Doctor8 == [NoDoctor EXCEPT !.id = S8, !.medicoId = S7, !.nombres = Str(<<"D", "r", "8">>)]
DoctorLists == {<<>>, <<Doctor7>>, <<Doctor8, Doctor7>>}

RoomA1 == RoomOf(SRoomA, Num(1), Num(3), Null)
RoomB1 == RoomOf(SRoomB, Str(<<"1">>), Null, Null)
RoomB2 == RoomOf(SRoomB, Num(2), Num(3), Str(<<"N">>))
RoomLists == {<<>>, <<RoomA1, RoomB1>>, <<RoomA1, RoomB2>>}
Buildings == {<<"1">>, <<"2">>}
\* the answers of getPisosEdificio(b): a failure, or the catalog of b
FloorEntry(code, desc) == [codigo_piso |-> code, descripcion_piso |-> desc]
PisosResults(b) ==
  {[success |-> FALSE, data |-> <<>>],
   [success |-> TRUE, data |-> <<FloorEntry(Num(3), Str(<<"C">> \o b))>>]}
\* no floor catalog was loaded
NoFloorMaps == [b \in {} |-> [success |-> FALSE, data |-> <<>>]]

\* the answers of one request for a list: the list bare or wrapped in
\* {data}, a body that holds no list, or a failure
ListResults(lists, message) ==
  {OkList([shape |-> sh, list |-> l]) : sh \in {"array", "wrapped"}, l \in lists}
    \cup {OkList([shape |-> "other", list |-> <<>>]), FailList(message)}
\* the same without the wrapped shape, for the catalogs
PlainResults(lists, message) ==
  {OkList([shape |-> "array", list |-> l]) : l \in lists} \cup {FailList(message)}

(***************************************************************************)
(* Orchestrator: getAgendasPorMedico and getAgendasDetalladasPorMedico     *)
(***************************************************************************)

Catalogs == {"medicos", "consultorios", "edificios", "dias"}
FetchNames == {"agendas"} \cup Catalogs

ProviderInputs == {S7, Num(8)}
FilterInputs == {NoFilter, Scalar(Num(12)), List(<<S34, Num(12)>>)}

NoPisosRes == [success |-> FALSE, data |-> <<>>]
NoAgCall == [st |-> "idle", who |-> "none", first |-> Pending, second |-> Pending,
             secondIssued |-> FALSE, ret |-> Pending]

OqInit ==
  /\ oqPc = "idle"
  /\ oqIn = [codigoPrestador |-> Null, especialidadId |-> NoFilter]
  /\ agCall = NoAgCall
  /\ agendasRes = Pending
  /\ fan = [n \in Catalogs |-> Pending]
  /\ agendasFromProv = <<>>
  /\ pisos = [b \in Buildings |-> [st |-> "none", invoked |-> 0, res |-> NoPisosRes]]
  /\ invoked = [n \in FetchNames |-> 0]
  /\ oqOut = Pending

\* constants.ts:249-261: the five fetches are started together
OqCall(codigoPrestador, especialidadId) ==
  /\ UNCHANGED <<gwVars, emVars, restVars, dcVars>>
  /\ oqPc = "idle"
  /\ oqPc' = "fanout"
  /\ oqIn' = [codigoPrestador |-> codigoPrestador, especialidadId |-> especialidadId]
  /\ agCall' = [NoAgCall EXCEPT !.st = "first", !.who = "initial"]
  /\ invoked' = [n \in FetchNames |-> 1]
  /\ UNCHANGED <<agendasRes, fan, agendasFromProv, pisos, oqOut>>

\* constants.ts:201, 207, 210: what getAgendasPorMedico returns; the mutant
\* takes any successful first answer, empty or not
PreferFirstIfSuccessful(first) == first.success
PreferFirst(first) == first.success /\ Len(AsList(first.data)) > 0
AfterSecond(first, second) ==
  IF Len(AsList(second.data)) > 0 THEN second
  ELSE IF first.success THEN first ELSE second

\* constants.ts:365-366: one getPisosEdificio per distinct building code; the
\* mutant asks once per room
StartPisosPerRoom(consultorios) ==
  [b \in Buildings |->
     IF b \in EdificiosUnicos(consultorios)
       THEN [pisos[b] EXCEPT !.st = "pending",
                             !.invoked = @ + Cardinality({i \in 1..Len(consultorios) :
                                 JsString(Coalesce(<<consultorios[i].codigo_edificio>>,
                                                   Str(<<>>))) = b})]
       ELSE pisos[b]]
StartPisos(consultorios) ==
  [b \in Buildings |->
     IF b \in EdificiosUnicos(consultorios)
       THEN [pisos[b] EXCEPT !.st = "pending", !.invoked = @ + 1]
       ELSE pisos[b]]

\* the value of getAgendasPorMedico reaches its caller: constants.ts:256, 277-280
AgReturn(call, ret) ==
  IF call.who = "initial"
    THEN /\ agendasRes' = ret
         /\ UNCHANGED <<agendasFromProv, oqPc, pisos, invoked>>
    ELSE /\ agendasFromProv' = AsList(ret.data)
         /\ oqPc' = "pisos"
         /\ pisos' = StartPisos(AsList(fan["consultorios"].data))
         /\ UNCHANGED <<agendasRes, invoked>>

\* the codigo_prestador query answers: constants.ts:197-203
AgFirstDone(r) ==
  /\ UNCHANGED <<gwVars, emVars, restVars, dcVars>>
  /\ agCall.st = "first"
  /\ IF PreferFirst(r)
       THEN /\ agCall' = [agCall EXCEPT !.st = "returned", !.first = r, !.ret = r]
            /\ AgReturn(agCall, r)
       ELSE /\ agCall' = [agCall EXCEPT !.st = "second", !.first = r, !.secondIssued = TRUE]
            /\ UNCHANGED <<agendasRes, agendasFromProv, oqPc, pisos, invoked>>
  /\ UNCHANGED <<oqIn, fan, oqOut>>

\* the cd_prestador query answers: constants.ts:203-210
AgSecondDone(r) ==
  /\ UNCHANGED <<gwVars, emVars, restVars, dcVars>>
  /\ agCall.st = "second"
  /\ agCall' = [agCall EXCEPT !.st = "returned", !.second = r,
                              !.ret = AfterSecond(agCall.first, r)]
  /\ AgReturn(agCall, AfterSecond(agCall.first, r))
  /\ UNCHANGED <<oqIn, fan, oqOut>>

\* one of the four catalog fetches answers: constants.ts:257-260
FanDone(n, r) ==
  /\ UNCHANGED <<gwVars, emVars, restVars, dcVars>>
  /\ oqPc = "fanout"
  /\ fan[n] = Pending
  /\ fan' = [fan EXCEPT ![n] = r]
  /\ UNCHANGED <<oqPc, oqIn, agCall, agendasRes, agendasFromProv, pisos, invoked, oqOut>>

\* constants.ts:276; the mutant also retries on a single slot
NeedsRetryOnFewSlots(res, list) == Len(list) <= 1
NeedsRetry(res, list) == Len(list) = 0

(* Promise.all of constants.ts:255 has resolved: constants.ts:263-281, and, *)
(* when no retry is due, on to the floor fetches of constants.ts:353-388.   *)
OqJoin ==
  /\ UNCHANGED <<gwVars, emVars, restVars, dcVars>>
  /\ oqPc = "fanout"
  /\ agendasRes # Pending
  /\ \A n \in Catalogs : fan[n] # Pending
  /\ IF NeedsRetry(agendasRes, AsList(agendasRes.data))
       THEN /\ oqPc' = "retry"
            /\ agCall' = [NoAgCall EXCEPT !.st = "first", !.who = "retry"]
            /\ invoked' = [invoked EXCEPT !["agendas"] = @ + 1]
            /\ agendasFromProv' = AsList(agendasRes.data)
            /\ UNCHANGED pisos
       ELSE /\ oqPc' = "pisos"
            /\ agendasFromProv' = AsList(agendasRes.data)
            /\ pisos' = StartPisos(AsList(fan["consultorios"].data))
            /\ UNCHANGED <<agCall, invoked>>
  /\ UNCHANGED <<oqIn, agendasRes, fan, oqOut>>

\* the floor catalog of one building answers: constants.ts:365-386
PisosDone(b, r) ==
  /\ UNCHANGED <<gwVars, emVars, restVars, dcVars>>
  /\ oqPc = "pisos"
  /\ pisos[b].st = "pending"
  /\ pisos' = [pisos EXCEPT ![b].st = "done", ![b].res = r]
  /\ UNCHANGED <<oqPc, oqIn, agCall, agendasRes, fan, agendasFromProv, invoked, oqOut>>

\* constants.ts:713; the mutant lets the schedule fetch alone decide
AllSucceededAgendasOnly(results) == results[1].success
AllSucceeded(results) == \A i \in 1..Len(results) : results[i].success

\* constants.ts:714, Array.prototype.find
RECURSIVE FirstFailure(_)
FirstFailure(results) ==
  IF results = <<>> THEN Undefined
  ELSE IF ~Head(results).success THEN Head(results).message
  ELSE FirstFailure(Tail(results))

\* constants.ts:350, 363-386: pisosPorEdificio, what the floor fetches that
\* answered have stored
PisosPorEdificio ==
  [b \in {c \in Buildings : pisos[c].st = "done"} |-> pisos[b].res]

\* Promise.all of constants.ts:388 has resolved: constants.ts:391-716
OqFinish ==
  /\ UNCHANGED <<gwVars, emVars, restVars, dcVars>>
  /\ oqPc = "pisos"
  /\ \A b \in Buildings : pisos[b].st # "pending"
  /\ oqPc' = "done"
  /\ LET results == <<agendasRes, fan["medicos"], fan["consultorios"], fan["edificios"], fan["dias"]>>
     IN oqOut' = [data |-> Emit(agendasFromProv, oqIn.codigoPrestador, oqIn.especialidadId,
                                AsList(fan["medicos"].data), AsList(fan["consultorios"].data),
                                PisosPorEdificio),
                  success |-> AllSucceeded(results),
                  message |-> FirstFailure(results)]
  /\ UNCHANGED <<oqIn, agCall, agendasRes, fan, agendasFromProv, pisos, invoked>>

OqNext ==
  \/ \E cp \in ProviderInputs, esp \in FilterInputs : OqCall(cp, esp)
  \/ \E r \in ListResults(AgendaLists, "HTTP error 500") : AgFirstDone(r)
  \/ \E r \in ListResults(AgendaLists, "Request timeout") : AgSecondDone(r)
  \/ \E r \in PlainResults(DoctorLists, "medicos down") : FanDone("medicos", r)
  \/ \E r \in PlainResults(RoomLists, "consultorios down") : FanDone("consultorios", r)
  \/ \E r \in PlainResults({<<>>}, "edificios down") : FanDone("edificios", r)
  \/ \E r \in PlainResults({<<>>}, "dias down") : FanDone("dias", r)
  \/ OqJoin
  \/ \E b \in Buildings : \E r \in PisosResults(b) : PisosDone(b, r)
  \/ OqFinish

(***************************************************************************)
(* The emitting part of the orchestrator on drawn inputs                   *)
(***************************************************************************)
\* provider fields of a slot: at most two of the five aliases are present
ProviderParts ==
  {p \in [{"codigo_prestador", "codigoPrestador", "cd_prestador", "prestadorId", "medicoId"}
            -> {Null, Num(7), S8}] :
     Cardinality({f \in DOMAIN p : p[f] # Null}) <= 2}
ItemParts ==
  [codigo_item_agendamiento : {Null, Num(12), SPad12, SAb}, id : {Null, S34}, codigo : {Null, S12}]

SlotUniverse ==
  {[NoSlot EXCEPT !.codigo_prestador = p["codigo_prestador"],
                  !.codigoPrestador = p["codigoPrestador"],
                  !.cd_prestador = p["cd_prestador"],
                  !.prestadorId = p["prestadorId"],
                  !.medicoId = p["medicoId"],
                  !.codigo_item_agendamiento = it.codigo_item_agendamiento,
                  !.id = it.id, !.codigo = it.codigo] : p \in ProviderParts, it \in ItemParts}

InsertAt(l, i, x) == SubSeq(l, 1, i - 1) \o <<x>> \o SubSeq(l, i, Len(l))

\* the empty list, and every list of SlotsSmall with one slot of the
\* universe put in at some place
EmitLists ==
  {<<>>} \cup
  {InsertAt(li[1], li[2], x) :
     li \in {y \in SeqsUpTo(SlotsSmall, MaxSlots - 1) \X (1..MaxSlots) : y[2] <= Len(y[1]) + 1},
     x \in SlotUniverse}

EmitProviders == {S7, Num(7), S8}
EmitFilters == {NoFilter, Scalar(Num(12)), Scalar(SAb), List(<<S12, Num(34)>>), List(<<>>)}

EmInit ==
  /\ emIn = [codigoPrestador |-> Null, especialidadId |-> NoFilter, agendas |-> <<>>,
             medicos |-> <<>>]
  /\ emOut = [done |-> FALSE, data |-> <<>>]

EmInitDrawn ==
  /\ emIn \in [codigoPrestador : EmitProviders, especialidadId : EmitFilters,
                agendas : EmitLists, medicos : {<<Doctor8, Doctor7>>}]
  /\ emOut = [done |-> FALSE, data |-> <<>>]

\* number of entries in the specialty list of a doctor record
MaxEsp == 2

\* the specialty lists a doctor record can carry
EspLists == {NoEspecialidades} \cup {EspecialidadesOf(l) : l \in SeqsUpTo(EspEntries, MaxEsp)}

\* the slots of provider 7 the specialty label is computed for
LabelSlots ==
  {[NoSlot EXCEPT !.codigo_prestador = S7, !.codigo_item_agendamiento = c] :
     c \in {Null, Num(12), SPad12, S34, SAb}}

\* the doctor catalogue: provider 7 with a drawn specialty list, or without
\* provider 7
LabelCatalogs ==
  {<<[Doctor8 EXCEPT !.medicoId = Null]>>} \cup
  {<<[Doctor8 EXCEPT !.medicoId = Null], [Doctor7 EXCEPT !.especialidades = e]>> : e \in EspLists}

\* one slot of provider 7, a filter and a catalogue are drawn
EmInitLabel ==
  /\ emIn \in [codigoPrestador : {S7},
                especialidadId : {NoFilter, Scalar(Num(12)), List(<<S12, Num(34)>>)},
                agendas : {<<a>> : a \in LabelSlots}, medicos : LabelCatalogs]
  /\ emOut = [done |-> FALSE, data |-> <<>>]

\* constants.ts:487-709 applied to the drawn slot list
EmitApply ==
  /\ ~emOut.done
  /\ emOut' = [done |-> TRUE,
               data |-> Emit(emIn.agendas, emIn.codigoPrestador, emIn.especialidadId,
                             emIn.medicos, <<RoomA1, RoomB2>>, NoFloorMaps)]
  /\ UNCHANGED <<emIn, gwVars, oqVars, dcVars, restVars>>

(***************************************************************************)
(* Doctor-list cache: useDoctorsCache                                      *)
(***************************************************************************)
\* number of loadDoctors activations in one behaviour
MaxLoads == 2

\* part_005:161  24 * 60 * 60 * 1000
CACHE_DURATION == 24 * 60 * 60 * 1000

LoadIds == 1..MaxLoads
NoLoad == 0

\* generateSessionId, part_005:164-166: the clock and a random suffix
RandomSuffixes == {"k3x9"}
NoSession == [at |-> 0, rnd |-> ""]

\* what localStorage holds under CACHE_KEY: nothing, text that is no entry
\* (JSON.parse throws), or an entry
NoStored == [kind |-> "none", doctors |-> <<>>, timestamp |-> 0, sessionId |-> NoSession]
Malformed == [kind |-> "malformed", doctors |-> <<>>, timestamp |-> 0, sessionId |-> NoSession]
Entry(doctors, timestamp, sessionId) ==
  [kind |-> "entry", doctors |-> doctors, timestamp |-> timestamp, sessionId |-> sessionId]

\* localStorage.removeItem(CACHE_KEY), part_005:179, 256; the mutant leaves
\* the entry in place
RemoveItemKeeps(entry) == entry
RemoveItem(entry) == NoStored

\* part_005:199-205; the mutant ignores the age of the entry
CacheUsableAnyAge(entry, t) == entry.kind = "entry" /\ entry.timestamp # 0
CacheUsable(entry, t) ==
  /\ entry.kind = "entry"
  /\ entry.timestamp # 0
  /\ t - entry.timestamp < CACHE_DURATION

\* the doctor lists /api/medicos serves, and what getDoctores resolves to
DcLists == {<<"dr1">>, <<"dr1", "dr2">>}
DoctoresResults ==
  {OkList([shape |-> "array", list |-> l]) : l \in DcLists}
    \cup {OkList([shape |-> "wrapped", list |-> <<"dr1">>]),
          OkList([shape |-> "other", list |-> <<>>]),
          FailList("Request timeout")}

\* useState initial values, part_005:171-174
HookInit == [doctors |-> <<>>, loading |-> TRUE, error |-> "null", isFromCache |-> FALSE]
NoHook == [doctors |-> <<>>, loading |-> FALSE, error |-> "<none>", isFromCache |-> FALSE]

(* The activation record of one loadDoctors().  startEntry (what getItem    *)
(* returned), startAt, fromCache, fetched (getDoctores was called), wrote   *)
(* (what setItem stored), after (the hook state the load left),            *)
(* doneAborted and resSuccess (the success flag of the answer of            *)
(* getDoctores) are history for the properties.                             *)
NewLoad ==
  [st |-> "new", via |-> "none", gen |-> 0, hasSignal |-> FALSE, aborted |-> FALSE,
   sessionId |-> NoSession, startEntry |-> NoStored, startAt |-> 0,
   fromCache |-> FALSE, fetched |-> FALSE, wrote |-> NoStored, after |-> NoHook,
   doneAt |-> 0, doneAborted |-> FALSE, resSuccess |-> FALSE]

NextLoad == IF \E l \in LoadIds : loads[l].st = "new"
              THEN CHOOSE l \in LoadIds : loads[l].st = "new" /\ \A k \in LoadIds : k < l => loads[k].st # "new"
              ELSE NoLoad

DcInit ==
  /\ storage = NoStored
  /\ hook = HookInit
  /\ mounted = FALSE
  /\ gen = 0
  /\ loads = [l \in LoadIds |-> NewLoad]
  /\ hidden = "no"

\* entries a previous visit may have left behind: none, a malformed one, one
\* exactly 24 h old and one a millisecond younger
DcInitDrawn ==
  /\ storage \in {NoStored, Malformed,
                  Entry(<<"dr1">>, 1, [at |-> 1, rnd |-> "k3x9"]),
                  Entry(<<"dr1">>, 2, [at |-> 2, rnd |-> "k3x9"])}
  /\ hook = HookInit
  /\ mounted = FALSE
  /\ gen = 0
  /\ loads = [l \in LoadIds |-> NewLoad]
  /\ hidden = "no"

DcClockInit ==
  /\ now = CACHE_DURATION + 1
  /\ ticks = 0

(* loadDoctors up to its first await, part_005:184-218, run by instance g   *)
(* on the stored entry `stored`: the new value of loads, hook.              *)
LoadBegin(l, via, g, hasSignal, rnd, stored, hk) ==
  LET base == [NewLoad EXCEPT !.via = via, !.gen = g, !.hasSignal = hasSignal,
                              !.sessionId = [at |-> now, rnd |-> rnd],
                              !.startEntry = stored, !.startAt = now]
      cleared == [hk EXCEPT !.loading = TRUE, !.error = "null"]
  IN IF CacheUsable(stored, now)
       THEN LET served == [cleared EXCEPT !.doctors = stored.doctors,
                                          !.isFromCache = TRUE, !.loading = FALSE]
            IN [load |-> [base EXCEPT !.st = "done", !.fromCache = TRUE, !.after = served,
                                      !.doneAt = now],
                hook |-> served]
       ELSE [load |-> [base EXCEPT !.st = "fetching", !.fetched = TRUE],
             hook |-> cleared]

\* the mount effect, part_005:262-264: a new instance with a new controller
Mount(rnd) ==
  LET l == NextLoad
      r == LoadBegin(l, "mount", gen + 1, TRUE, rnd, storage, HookInit)
  IN /\ ~mounted
     /\ l # NoLoad
     /\ mounted' = TRUE
     /\ gen' = gen + 1
     /\ loads' = [loads EXCEPT ![l] = r.load]
     /\ hook' = r.hook
     /\ hidden' = "no"
     /\ UNCHANGED <<storage, now, ticks, inMemoryCache, calls, lastOk, oqVars, emVars, restVars>>

\* the cleanup of the mount effect, part_005:279-283
Unmount ==
  /\ mounted
  /\ mounted' = FALSE
  /\ loads' = [l \in LoadIds |->
                 IF loads[l].via = "mount" /\ loads[l].gen = gen
                   THEN [loads[l] EXCEPT !.aborted = TRUE] ELSE loads[l]]
  /\ UNCHANGED <<storage, hook, gen, hidden, gwVars, oqVars, emVars, restVars>>

\* refreshDoctors, part_005:254-259, with or without a signal of the caller
Refresh(hasSignal, rnd) ==
  LET l == NextLoad
      r == LoadBegin(l, "refresh", gen, hasSignal, rnd, RemoveItem(storage), hook)
  IN /\ mounted
     /\ l # NoLoad
     /\ storage' = RemoveItem(storage)
     /\ loads' = [loads EXCEPT ![l] = r.load]
     /\ hook' = r.hook
     /\ hidden' = "no"
     /\ UNCHANGED <<mounted, gen, gwVars, oqVars, emVars, restVars>>

\* the caller of refreshDoctors aborts the signal it passed
AbortRefresh(l) ==
  /\ loads[l].st = "fetching"
  /\ loads[l].via = "refresh"
  /\ loads[l].hasSignal
  /\ ~loads[l].aborted
  /\ loads' = [loads EXCEPT ![l].aborted = TRUE]
  /\ UNCHANGED <<storage, hook, mounted, gen, hidden, gwVars, oqVars, emVars, restVars>>

\* handlePageHide, part_005:271-273
PageHide ==
  /\ mounted
  /\ storage' = RemoveItem(storage)
  /\ hidden' = "pagehide"
  /\ UNCHANGED <<hook, mounted, gen, loads, gwVars, oqVars, emVars, restVars>>

\* handleBeforeUnload, part_005:267-269
BeforeUnload ==
  /\ mounted
  /\ storage' = RemoveItem(storage)
  /\ hidden' = "beforeunload"
  /\ UNCHANGED <<hook, mounted, gen, loads, gwVars, oqVars, emVars, restVars>>

\* clearCache called through the value the hook returns, part_005:177-181
ClearCache ==
  /\ mounted
  /\ storage' = RemoveItem(storage)
  /\ UNCHANGED <<hook, mounted, gen, loads, hidden, gwVars, oqVars, emVars, restVars>>

\* part_005:225
MayApply(load) == ~(load.hasSignal /\ load.aborted)

\* getDoctores has resolved with res: part_005:218-250
LoadComplete(l, res) ==
  LET load == loads[l]
      list == AsList(res.data)
      cacheData == Entry(list, now, load.sessionId)
      applied == [hook EXCEPT !.doctors = list, !.isFromCache = FALSE, !.loading = FALSE]
  IN /\ load.st = "fetching"
     /\ IF MayApply(load)
          THEN /\ storage' = cacheData
               /\ hook' = IF load.gen = gen THEN applied ELSE hook
               /\ loads' = [loads EXCEPT ![l] = [load EXCEPT !.st = "done", !.wrote = cacheData,
                                                             !.after = applied, !.doneAt = now,
                                                             !.resSuccess = res.success]]
          ELSE /\ loads' = [loads EXCEPT ![l] = [load EXCEPT !.st = "done", !.doneAt = now,
                                                             !.doneAborted = TRUE,
                                                             !.resSuccess = res.success]]
               /\ UNCHANGED <<storage, hook>>
     /\ UNCHANGED <<mounted, gen, hidden, gwVars, oqVars, emVars, restVars>>

DcTimeSteps == {1, CACHE_DURATION}

DcTick(d) ==
  /\ ticks < MaxTicks
  /\ now' = now + d
  /\ ticks' = ticks + 1
  /\ UNCHANGED <<inMemoryCache, calls, lastOk, dcVars, oqVars, emVars, restVars>>

DcNext ==
  \/ \E rnd \in RandomSuffixes : Mount(rnd)
  \/ Unmount
  \/ \E hasSignal \in BOOLEAN, rnd \in RandomSuffixes : Refresh(hasSignal, rnd)
  \/ \E l \in LoadIds : AbortRefresh(l)
  \/ PageHide
  \/ BeforeUnload
  \/ ClearCache
  \/ \E l \in LoadIds, res \in DoctoresResults : LoadComplete(l, res)
  \/ \E d \in DcTimeSteps : DcTick(d)

(***************************************************************************)
(* Specialties page: SpecialtiesPage.fetchSpecialties                      *)
(***************************************************************************)
\* config.ts:37   specialties: 60000
SPECIALTIES_TTL == 60000

\* the text a descripcion can be; "" is the falsy one
Descripciones == {"", "Cardiologia", "Pediatria"}
\* a.localeCompare(b) < 0 for the names of the model
LocaleRank(d) == CASE d = "" -> 0 [] d = "Cardiologia" -> 1 [] d = "Pediatria" -> 2
Especialidades ==
  {[especialidadId |-> 1, descripcion |-> "Pediatria"],
   [especialidadId |-> 2, descripcion |-> "Cardiologia"],
   [especialidadId |-> 3, descripcion |-> ""]}
EspecialidadLists == UNION {[1..n -> Especialidades] : n \in 0..MaxSpecialties}

\* page.tsx:55   .filter(esp => Boolean(esp.descripcion))
RECURSIVE FilterDescripcion(_)
FilterDescripcion(list) ==
  IF list = <<>> THEN <<>>
  ELSE IF Head(list).descripcion # ""
         THEN <<Head(list)>> \o FilterDescripcion(Tail(list))
         ELSE FilterDescripcion(Tail(list))

\* insertion of e into a list sorted by descripcion, after its equals
RECURSIVE InsertSorted(_, _)
InsertSorted(e, list) ==
  IF list = <<>> THEN <<e>>
  ELSE IF LocaleRank(e.descripcion) < LocaleRank(Head(list).descripcion)
         THEN <<e>> \o list
         ELSE <<Head(list)>> \o InsertSorted(e, Tail(list))

\* page.tsx:56   .sort((a, b) => a.descripcion.localeCompare(b.descripcion)),
\* a stable sort
RECURSIVE SortByDescripcion(_)
SortByDescripcion(list) ==
  IF list = <<>> THEN <<>>
  ELSE InsertSorted(list[Len(list)], SortByDescripcion(SubSeq(list, 1, Len(list) - 1)))

\* page.tsx:54-56
FinalList(data) == SortByDescripcion(FilterDescripcion(data))

\* What sessionStorage.getItem returns: nothing ("none"), a text JSON.parse
\* rejects ("notJson"), the text `null` ("null"), or the text of an object
\* ("object") whose ts is ts (0: no ts) and whose data is data, an array
\* or not.
NoCached == [kind |-> "none", ts |-> 0, isArray |-> FALSE, data |-> <<>>]
NotJson == [kind |-> "notJson", ts |-> 0, isArray |-> FALSE, data |-> <<>>]
JsonNull == [kind |-> "null", ts |-> 0, isArray |-> FALSE, data |-> <<>>]
SessionEntry(ts, isArray, data) ==
  [kind |-> "object", ts |-> ts, isArray |-> isArray, data |-> data]

\* page.tsx:34-35: JSON.parse(cached) and parsed.ts throw for these
ParseThrows(cached) == cached.kind \in {"notJson", "null"}

\* page.tsx:37
SessionUsable(cached, t) ==
  /\ cached.kind = "object"
  /\ cached.ts # 0
  /\ t - cached.ts < SPECIALTIES_TTL
  /\ cached.isArray

SpError == "Error al cargar las especialidades. Intente nuevamente más tarde."
NoSpError == "null"

\* what getAccessToken and axios.get end in: an array, a body that is no
\* array, or a rejection (login failed, network error, non-2xx, timeout)
SpResponses ==
  {[ok |-> TRUE, isArray |-> TRUE, data |-> l] : l \in EspecialidadLists}
    \cup {[ok |-> TRUE, isArray |-> FALSE, data |-> <<>>],
          [ok |-> FALSE, isArray |-> FALSE, data |-> <<>>]}

SpRunInit ==
  [pc |-> "idle", startEntry |-> NoCached, startAt |-> 0, fetched |-> FALSE,
   rejected |-> FALSE]

\* page.tsx:22-24
SpInit ==
  /\ session = NoCached
  /\ spView = [specialties |-> <<>>, loading |-> TRUE, error |-> NoSpError]
  /\ spRun = SpRunInit

\* the entries a page load can find in the storage
SpInitDrawn ==
  /\ session \in {NoCached, NotJson, JsonNull,
                  SessionEntry(0, TRUE, <<>>),
                  SessionEntry(1, FALSE, <<>>),
                  SessionEntry(1, TRUE, <<>>)}
  /\ spView = [specialties |-> <<>>, loading |-> TRUE, error |-> NoSpError]
  /\ spRun = SpRunInit

\* the mount effect, page.tsx:26-43, up to the first await
SpMount ==
  /\ UNCHANGED spOthers
  /\ spRun.pc = "idle"
  /\ IF session.kind # "none" /\ ParseThrows(session)
       THEN \* page.tsx:63-67, the catch and the finally
            /\ spView' = [spView EXCEPT !.error = SpError, !.loading = FALSE]
            /\ spRun' = [spRun EXCEPT !.pc = "done", !.startEntry = session,
                                      !.startAt = now]
       ELSE IF session.kind # "none" /\ SessionUsable(session, now)
         THEN \* page.tsx:38-39, and the finally
              /\ spView' = [spView EXCEPT !.specialties = session.data,
                                          !.loading = FALSE]
              /\ spRun' = [spRun EXCEPT !.pc = "done", !.startEntry = session,
                                        !.startAt = now]
         ELSE \* page.tsx:43-45
              /\ spView' = spView
              /\ spRun' = [spRun EXCEPT !.pc = "fetching", !.startEntry = session,
                                        !.startAt = now, !.fetched = TRUE]
  /\ UNCHANGED session

\* getAccessToken and axios.get have settled: page.tsx:43-67
SpFetchDone(res) ==
  /\ UNCHANGED spOthers
  /\ spRun.pc = "fetching"
  /\ IF res.ok /\ res.isArray
       THEN /\ spView' = [spView EXCEPT !.specialties = FinalList(res.data),
                                        !.loading = FALSE]
            /\ session' = SessionEntry(now, TRUE, FinalList(res.data))
            /\ spRun' = [spRun EXCEPT !.pc = "done"]
       ELSE \* a rejection, or .filter of a value that is no array
            /\ spView' = [spView EXCEPT !.error = SpError, !.loading = FALSE]
            /\ spRun' = [spRun EXCEPT !.pc = "done", !.rejected = TRUE]
            /\ UNCHANGED session

\* the page is opened again (a reload, or a later visit in the same tab)
SpReload ==
  /\ UNCHANGED spOthers
  /\ spRun.pc = "done"
  /\ spView' = [specialties |-> <<>>, loading |-> TRUE, error |-> NoSpError]
  /\ spRun' = SpRunInit
  /\ UNCHANGED session

SpTimeSteps == {1, SPECIALTIES_TTL}

SpTick(d) ==
  /\ ticks < MaxTicks
  /\ now' = now + d
  /\ ticks' = ticks + 1
  /\ UNCHANGED <<inMemoryCache, calls, lastOk, oqVars, emVars, dcVars, restVars>>

SpNext ==
  \/ SpMount
  \/ \E res \in SpResponses : SpFetchDone(res)
  \/ SpReload
  \/ \E d \in SpTimeSteps : SpTick(d)

\* nothing applied yet
NoArg == <<>>
NoValue == [applied |-> FALSE]
FnInit ==
  /\ fnIn = NoArg
  /\ fnOut = NoValue

AuInit ==
  /\ accessToken = ""
  /\ refreshToken = ""
  /\ authCalls = <<>>

(***************************************************************************)
(* Doctor-schedule view hook: useDoctorSchedule with useDoctorData         *)
(***************************************************************************)
\* number of loadData activations in one behaviour
MaxShLoads == 3

\* the (doctorSlug, specialtySlug) pairs the hook is rendered with: byId
\* tells whether the doctor slug is all digits, source is the `source`
\* parameter of the page address
ShParamSet ==
  {[key |-> "a", byId |-> TRUE, source |-> "specialty"],
   [key |-> "b", byId |-> FALSE, source |-> "null"]}
NoParams == [key |-> "", byId |-> FALSE, source |-> "null"]

Operations == {"specialty", "doctor", "schedules", "general"}
NoMessage == "null"

ShDays == {"monday", "tuesday"}
\* the week day of new Date()
Today == "monday"

\* the entries of one day of formattedSchedules: whether the day is a key,
\* and whether some entry is a consultation, a procedure
NoEntries == [present |-> FALSE, consulta |-> FALSE, procedimiento |-> FALSE]
DayEntries ==
  {NoEntries,
   [present |-> TRUE, consulta |-> TRUE, procedimiento |-> FALSE],
   [present |-> TRUE, consulta |-> TRUE, procedimiento |-> TRUE]}
\* the schedules the orchestrator answers with: today has no entries or
\* consultations only, any other day none or both kinds
FormattedSchedules ==
  {fs \in [ShDays -> DayEntries] :
     \A d \in ShDays : fs[d].present => (fs[d].procedimiento <=> d # Today)}

\* part_003:36-57, the state of the hook after the first render
ShViewInit ==
  [doctorInfo |-> "null",
   doctorSchedules |-> [isNull |-> TRUE, key |-> "", data |-> [d \in ShDays |-> NoEntries]],
   selectedDay |-> "null", selectedKind |-> "null", source |-> "null",
   loadingStates |-> [specialty |-> FALSE, doctor |-> FALSE, schedules |-> FALSE,
                      overall |-> TRUE],
   errors |-> [o \in Operations |-> NoMessage]]

ShInit ==
  /\ shView = ShViewInit
  /\ shParams = NoParams
  /\ shAlive = FALSE
  /\ shLoads = <<>>

\* part_003:61-63
UpdateLoadingState(v, op, b) == [v EXCEPT !.loadingStates[op] = b]
\* part_003:65-67
UpdateError(v, op, message) == [v EXCEPT !.errors[op] = message]
\* part_003:69-76
ClearAllErrors(v) == [v EXCEPT !.errors = [o \in Operations |-> NoMessage]]

\* what a load wrote to the state of a mounted hook after its signal fired:
\* the operations it set an error for, whether it applied its results, and
\* whether it called any setter
NothingWritten == [errors |-> {}, applied |-> FALSE, touched |-> FALSE]

\* what a load left in the state of the hook when it ended
NothingLeft ==
  [overall |-> TRUE, doctorInfo |-> "null", schedulesKey |-> "null", general |-> NoMessage]
LeftIn(v) ==
  [overall |-> v.loadingStates.overall, doctorInfo |-> v.doctorInfo,
   schedulesKey |-> IF v.doctorSchedules.isNull THEN "null" ELSE v.doctorSchedules.key,
   general |-> v.errors["general"]]

\* The activation record of one loadData().  outcome, afterAbort, started
\* (the steps it began), failedAt (the step that rejected), left, endAlive
\* and endAborted (whether the hook was mounted and the signal had fired
\* when it ended) are history for the properties.
NewShLoad(params, signal) ==
  [pc |-> "token", params |-> params, signal |-> signal, outcome |-> "pending",
   afterAbort |-> NothingWritten, started |-> {}, failedAt |-> "none",
   left |-> NothingLeft, endAlive |-> FALSE, endAborted |-> FALSE]
\* part_003:95-99, loadData up to its first await
StartLoad(v) == ClearAllErrors(UpdateLoadingState(v, "overall", TRUE))

\* part_003:156-159, the cleanup of the effect aborts its controller
AbortEffectLoad(started) ==
  [i \in DOMAIN started |->
     IF started[i].signal = "live" THEN [started[i] EXCEPT !.signal = "aborted"]
     ELSE started[i]]

\* the record of a load after a step that called setters of a mounted hook
Wrote(L, errs, applied) ==
  IF L.signal = "aborted" /\ shAlive
    THEN [L EXCEPT !.afterAbort =
            [errors |-> @.errors \cup errs, applied |-> @.applied \/ applied,
             touched |-> TRUE]]
    ELSE L

\* setters of an unmounted component change nothing
Commit(l, L, v) ==
  /\ shLoads' = [shLoads EXCEPT ![l] =
                   IF L.pc = "done"
                     THEN [L EXCEPT !.left = LeftIn(IF shAlive THEN v ELSE shView),
                                    !.endAlive = shAlive,
                                    !.endAborted = (L.signal = "aborted")]
                     ELSE L]
  /\ shView' = IF shAlive THEN v ELSE shView
  /\ UNCHANGED <<shParams, shAlive, shOthers>>

\* part_003:120-131, the catch of loadData; the mutant swallows the error
CatchLoadSilent(v, L, message) == v
CatchLoad(v, L, message) ==
  IF L.signal # "aborted"
    THEN UpdateLoadingState(UpdateError(v, "general", message), "overall", FALSE)
    ELSE v
CaughtErrors(L) == IF L.signal # "aborted" THEN {"general"} ELSE {}

\* an axios request with an aborted signal rejects with a CanceledError
AxiosOutcomes(L, normal) == IF L.signal = "aborted" THEN {"canceled"} ELSE normal
ErrorMessage(res, missing) ==
  CASE res = "canceled" -> "canceled"
    [] res = "failed" -> "Network Error"
    [] OTHER -> missing

\* use-doctor-schedule-ui.ts:69-106
AutoSelectDayAndType(v, fs) ==
  LET availableDays == {d \in ShDays : fs[d].present}
      dayToSelect == IF Today \in availableDays THEN Today
                     ELSE IF Cardinality(availableDays) = 1
                       THEN CHOOSE d \in availableDays : TRUE
                       ELSE "null"
  IN IF dayToSelect = "null" THEN v
     ELSE LET hasConsulta == fs[dayToSelect].consulta
              hasProcedimiento == fs[dayToSelect].procedimiento
          IN [v EXCEPT !.selectedDay = dayToSelect,
                       !.selectedKind = IF hasConsulta /\ ~hasProcedimiento THEN "consulta"
                                        ELSE IF hasProcedimiento /\ ~hasConsulta
                                          THEN "procedimiento"
                                          ELSE @]

\* part_003:134-160, the first run of the effect
ShMount(p) ==
  /\ ~shAlive /\ shLoads = <<>>
  /\ shAlive' = TRUE
  /\ shParams' = p
  /\ shView' = StartLoad(shView)
  /\ shLoads' = <<NewShLoad(p, "live")>>
  /\ UNCHANGED shOthers

\* part_003:134-160, the parameters change: cleanup, then the effect again
ShChangeParams(p) ==
  /\ shAlive /\ p # shParams /\ Len(shLoads) < MaxShLoads
  /\ shParams' = p
  /\ shView' = StartLoad(shView)
  /\ shLoads' = Append(AbortEffectLoad(shLoads), NewShLoad(p, "live"))
  /\ UNCHANGED <<shAlive, shOthers>>

\* part_003:156-159, the component is torn down
ShUnmount ==
  /\ shAlive
  /\ shAlive' = FALSE
  /\ shLoads' = AbortEffectLoad(shLoads)
  /\ UNCHANGED <<shView, shParams, shOthers>>

\* part_003:220, reload: loadData() without a signal
ShReload ==
  /\ shAlive /\ Len(shLoads) < MaxShLoads
  /\ shView' = StartLoad(shView)
  /\ shLoads' = Append(shLoads, NewShLoad(shParams, "none"))
  /\ UNCHANGED <<shParams, shAlive, shOthers>>

\* use-mobile.tsx:253-256, getAccessToken settles; resolveSpecialty runs up
\* to its request
ShTokenDone(l, ok) ==
  /\ l \in DOMAIN shLoads /\ shLoads[l].pc = "token"
  /\ LET L == shLoads[l]
     IN IF ok
          THEN Commit(l, Wrote([L EXCEPT !.pc = "specialty", !.started = {"specialty"}],
                               {}, FALSE),
                      UpdateError(UpdateLoadingState(shView, "specialty", TRUE),
                                  "specialty", NoMessage))
          ELSE IF L.signal # "aborted"
            THEN Commit(l, Wrote([L EXCEPT !.pc = "done", !.outcome = "failed",
                                           !.failedAt = "token"],
                                 CaughtErrors(L), FALSE),
                        CatchLoad(shView, L, "Network Error"))
            ELSE Commit(l, [L EXCEPT !.pc = "done", !.outcome = "failed",
                                     !.failedAt = "token"], shView)

\* the rejection of a step: its catch, then the catch of loadData
StepFails(l, op, message) ==
  LET L == shLoads[l]
  IN Commit(l, Wrote([L EXCEPT !.pc = "done", !.outcome = "failed", !.failedAt = op],
                     {op} \cup CaughtErrors(L), FALSE),
            CatchLoad(UpdateError(UpdateLoadingState(shView, op, FALSE), op, message),
                      L, message))

\* use-mobile.tsx:69-112, the request of resolveSpecialty settles;
\* resolveDoctor runs up to its first request
ShSpecialtyDone(l, res) ==
  /\ l \in DOMAIN shLoads /\ shLoads[l].pc = "specialty"
  /\ res \in AxiosOutcomes(shLoads[l], {"found", "missing", "failed"})
  /\ LET L == shLoads[l]
     IN IF res = "found"
          THEN Commit(l, Wrote([L EXCEPT !.pc = IF L.params.byId THEN "doctorDetail"
                                                ELSE "doctorList",
                                         !.started = @ \cup {"doctor"}], {}, FALSE),
                      UpdateError(
                        UpdateLoadingState(UpdateLoadingState(shView, "specialty", FALSE),
                                           "doctor", TRUE),
                        "doctor", NoMessage))
          ELSE StepFails(l, "specialty", ErrorMessage(res, "Especialidad no encontrada"))

\* use-mobile.tsx:139-150, the doctors of the specialty arrive
ShDoctorListDone(l, res) ==
  /\ l \in DOMAIN shLoads /\ shLoads[l].pc = "doctorList"
  /\ res \in AxiosOutcomes(shLoads[l], {"found", "missing", "failed"})
  /\ IF res = "found"
       THEN /\ shLoads' = [shLoads EXCEPT ![l].pc = "doctorDetail"]
            /\ UNCHANGED <<shView, shParams, shAlive, shOthers>>
       ELSE StepFails(l, "doctor", ErrorMessage(res, "Médico no encontrado"))

\* use-mobile.tsx:132-169, 175-190, the doctor record arrives; buildSchedules
\* runs up to the call of the orchestrator
ShDoctorDetailDone(l, res) ==
  /\ l \in DOMAIN shLoads /\ shLoads[l].pc = "doctorDetail"
  /\ res \in AxiosOutcomes(shLoads[l], {"found", "failed"})
  /\ LET L == shLoads[l]
     IN IF res = "found"
          THEN Commit(l, Wrote([L EXCEPT !.pc = "schedules",
                                         !.started = @ \cup {"schedules"}], {}, FALSE),
                      [UpdateError(
                         UpdateLoadingState(UpdateLoadingState(shView, "doctor", FALSE),
                                            "schedules", TRUE),
                         "schedules", NoMessage)
                       EXCEPT !.source = L.params.source])
          ELSE StepFails(l, "doctor", ErrorMessage(res, "Médico no encontrado"))

\* use-mobile.tsx:192-230 and part_003:109-119, the orchestrator answers
ShSchedulesDone(l, fs) ==
  /\ l \in DOMAIN shLoads /\ shLoads[l].pc = "schedules"
  /\ LET L == shLoads[l]
         built == UpdateLoadingState(shView, "schedules", FALSE)
     IN IF L.signal # "aborted"
          THEN Commit(l, Wrote([L EXCEPT !.pc = "done", !.outcome = "applied"], {}, TRUE),
                      UpdateLoadingState(
                        [AutoSelectDayAndType(built, fs)
                           EXCEPT !.doctorInfo = L.params.key,
                                  !.doctorSchedules =
                                    [isNull |-> FALSE, key |-> L.params.key, data |-> fs]],
                        "overall", FALSE))
          ELSE Commit(l, Wrote([L EXCEPT !.pc = "done", !.outcome = "dropped"], {}, FALSE),
                      built)

\* the steps of load l: the settling of the request it waits for
ShStep(l) ==
  \/ \E ok \in BOOLEAN : ShTokenDone(l, ok)
  \/ \E res \in {"found", "missing", "failed", "canceled"} : ShSpecialtyDone(l, res)
  \/ \E res \in {"found", "missing", "failed", "canceled"} : ShDoctorListDone(l, res)
  \/ \E res \in {"found", "failed", "canceled"} : ShDoctorDetailDone(l, res)
  \/ \E fs \in FormattedSchedules : ShSchedulesDone(l, fs)

ShNext ==
  \/ \E p \in ShParamSet : ShMount(p)
  \/ \E p \in ShParamSet : ShChangeParams(p)
  \/ ShUnmount
  \/ ShReload
  \/ \E l \in 1..MaxShLoads : \E ok \in BOOLEAN : ShTokenDone(l, ok)
  \/ \E l \in 1..MaxShLoads : \E res \in {"found", "missing", "failed", "canceled"} :
       ShSpecialtyDone(l, res)
  \/ \E l \in 1..MaxShLoads : \E res \in {"found", "missing", "failed", "canceled"} :
       ShDoctorListDone(l, res)
  \/ \E l \in 1..MaxShLoads : \E res \in {"found", "failed", "canceled"} :
       ShDoctorDetailDone(l, res)
  \/ \E l \in 1..MaxShLoads : \E fs \in FormattedSchedules : ShSchedulesDone(l, fs)

(***************************************************************************)
(* Agendas view hook: useAgendas, the floors of the selected building      *)
(* (part_002:44-59, 138-164, 217-240)                                      *)
(***************************************************************************)
MaxFloorLoads == 4

\* the buildings the view offers; "" is the entry for no building
AgBuildings == {"E1", "E2"}
NoneSelected == ""
\* the floor catalog the backend serves for building b
FloorCatalog(b) == <<[edificio |-> b, codigo |-> 1], [edificio |-> b, codigo |-> 2]>>
NoFloorError == "null"

\* part_002:44-59, and the effects of the first render: loadFloors("")
AgInit ==
  /\ agState = [pisos |-> <<>>, error |-> NoFloorError]
  /\ agFilters = [edificioSeleccionado |-> NoneSelected, pisoSeleccionado |-> ""]
  /\ agFloorLoads = <<>>

\* part_002:141-149, loadFloors up to its await: "" empties the list at
\* once, a building starts a request
\* by tells who called loadFloors: the handler or the effect
NewFloorLoad(edificioId, by) == [edificio |-> edificioId, st |-> "pending", by |-> by]
\* part_002:220-223, 238-240: setEdificioSeleccionado calls loadFloors, and
\* the effect calls it again when the selected building has changed
LoadFloorsCalls(edificioId) ==
  IF edificioId # agFilters.edificioSeleccionado THEN 2 ELSE 1
AgSetEdificioSeleccionado(edificioId) ==
  /\ UNCHANGED agOthers
  /\ Len(agFloorLoads) + LoadFloorsCalls(edificioId) <= MaxFloorLoads
  /\ IF edificioId = NoneSelected
       THEN /\ agState' = [agState EXCEPT !.pisos = <<>>]
            /\ agFilters' = [edificioSeleccionado |-> edificioId, pisoSeleccionado |-> ""]
            /\ UNCHANGED agFloorLoads
       ELSE /\ agFilters' = [agFilters EXCEPT !.edificioSeleccionado = edificioId]
            /\ agFloorLoads' =
                 agFloorLoads \o (IF LoadFloorsCalls(edificioId) = 2
                                     THEN <<NewFloorLoad(edificioId, "handler"),
                                            NewFloorLoad(edificioId, "effect")>>
                                     ELSE <<NewFloorLoad(edificioId, "handler")>>)
            /\ UNCHANGED agState

\* part_002:228-230
AgSetPisoSeleccionado(pisoId) ==
  /\ UNCHANGED agOthers
  /\ \E i \in 1..Len(agState.pisos) : agState.pisos[i].codigo = pisoId
  /\ agFilters' = [agFilters EXCEPT !.pisoSeleccionado = pisoId]
  /\ UNCHANGED <<agState, agFloorLoads>>

\* part_002:149-163, the request of load l settles: the answer is applied
\* whatever building is selected by then
FloorsLoaded(L) ==
  /\ agState' = [agState EXCEPT !.pisos = FloorCatalog(L.edificio)]
  /\ agFilters' = [agFilters EXCEPT !.pisoSeleccionado = ""]
AgFloorsDone(l, ok) ==
  /\ UNCHANGED agOthers
  /\ l \in DOMAIN agFloorLoads /\ agFloorLoads[l].st = "pending"
  /\ agFloorLoads' = [agFloorLoads EXCEPT ![l].st = IF ok THEN "loaded" ELSE "failed"]
  /\ IF ok
       THEN FloorsLoaded(agFloorLoads[l])
       ELSE /\ agState' = [agState EXCEPT !.error = "Error al cargar pisos del edificio"]
            /\ UNCHANGED agFilters

AgNext ==
  \/ \E e \in AgBuildings \cup {NoneSelected} : AgSetEdificioSeleccionado(e)
  \/ \E p \in 1..2 : AgSetPisoSeleccionado(p)
  \/ \E l \in 1..MaxFloorLoads : \E ok \in BOOLEAN : AgFloorsDone(l, ok)

RestInit == SpInit /\ AuInit /\ ShInit /\ AgInit /\ FnInit

(***************************************************************************)
(* Text.  A string is a sequence of characters; a character outside ASCII  *)
(* is written as a name in angle brackets.                                 *)
(***************************************************************************)
UpperChars == <<"A", "B", "C", "D", "E", "F", "G", "H", "I", "J", "K", "L", "M",
                "N", "O", "P", "Q", "R", "S", "T", "U", "V", "W", "X", "Y", "Z">>
LowerChars == <<"a", "b", "c", "d", "e", "f", "g", "h", "i", "j", "k", "l", "m",
                "n", "o", "p", "q", "r", "s", "t", "u", "v", "w", "x", "y", "z">>
IsUpperChar(ch) == \E i \in 1..26 : UpperChars[i] = ch
IsLowerChar(ch) == \E i \in 1..26 : LowerChars[i] = ch

\* U+0301 and U+0303, the combining acute accent and tilde; U+0307, the
\* combining dot above
CombAcute == "<U+0301>"
CombTilde == "<U+0303>"
CombDot == "<U+0307>"
\* precomposed letters: e and E with acute, n with tilde, and U+0130, the
\* capital I with dot above
EAcute == "<e-acute>"
CapEAcute == "<E-acute>"
NTilde == "<n-tilde>"
CapIDot == "<U+0130>"
\* the range U+0300-U+036F, as far as the model has characters in it
IsCombining(ch) == ch \in {CombAcute, CombTilde, CombDot}

\* String.prototype.toLowerCase, one character: U+0130 becomes i followed by
\* the combining dot
LowerOf(ch) ==
  IF IsUpperChar(ch)
    THEN <<LowerChars[CHOOSE i \in 1..26 : UpperChars[i] = ch]>>
    ELSE CASE ch = CapEAcute -> <<EAcute>>
           [] ch = CapIDot -> <<"i", CombDot>>
           [] OTHER -> <<ch>>

RECURSIVE ToLowerCase(_)
ToLowerCase(s) == IF s = <<>> THEN <<>> ELSE LowerOf(Head(s)) \o ToLowerCase(Tail(s))

\* whether needle occurs in hay: the test of a regular expression that is an
\* alternation of literals
Contains(hay, needle) ==
  \E i \in 1..(Len(hay) - Len(needle) + 1) : SubSeq(hay, i, i + Len(needle) - 1) = needle

RECURSIVE Concat(_)
Concat(ws) == IF ws = <<>> THEN <<>> ELSE Head(ws) \o Concat(Tail(ws))

(***************************************************************************)
(* Visit types: isProcedure and isConsulta                                 *)
(***************************************************************************)
\* (tipo || ''): undefined and '' both give ''
OrEmpty(v) == IF v = Null THEN <<>> ELSE JsString(v)

\* /(proced|qx|quir|cirug)/
ProcedurePatterns ==
  {<<"p", "r", "o", "c", "e", "d">>, <<"q", "x">>, <<"q", "u", "i", "r">>,
   <<"c", "i", "r", "u", "g">>}
\* /(consulta|cons|medicina)/
ConsultaPatterns ==
  {<<"c", "o", "n", "s", "u", "l", "t", "a">>, <<"c", "o", "n", "s">>,
   <<"m", "e", "d", "i", "c", "i", "n", "a">>}

\* part_000:44-47, and the same text in part_004:285-288 and
\* use-doctor-schedule.ts:97-100
IsProcedure(tipo) ==
  LET t == ToLowerCase(OrEmpty(tipo))
  IN \E pat \in ProcedurePatterns : Contains(t, pat)

\* part_000:53-55 and use-doctor-schedule.ts:105
IsConsulta(tipo) == ~IsProcedure(tipo)

\* part_004:293-296, the isConsulta of useDataNormalization
NormalizationIsConsulta(tipo) ==
  LET t == ToLowerCase(OrEmpty(tipo))
  IN \E pat \in ConsultaPatterns : Contains(t, pat)

\* words the visit types of the model are made of
TipoWords ==
  {<<"C", "o", "n", "s", "u", "l", "t", "a">>, <<"c", "o", "n", "s">>,
   <<"P", "R", "O", "C", "E", "D">>, <<"Q", "x">>, <<"q", "u", "i", "r">>,
   <<"C", "i", "r", "u", "g", "i", "a">>,
   <<"m", "e", "d", "i", "c", "i", "n", "a">>,
   <<"c", "o", "n", "t", "r", "o", "l">>, <<" ">>}
\* undefined, '' and the texts of up to MaxTipoWords words
TipoInputs ==
  {Null} \cup
  {Str(Concat(ws)) : ws \in UNION {[1..n -> TipoWords] : n \in 0..MaxTipoWords}}

InitVisitType ==
  /\ ClockInit /\ GwInit /\ OqInit /\ EmInit /\ DcInit /\ SpInit /\ AuInit /\ ShInit /\ AgInit
  /\ fnIn \in TipoInputs
  /\ fnOut = NoValue

\* the three predicates applied to a visit type
ClassifyApply ==
  /\ UNCHANGED fnOthers
  /\ ~fnOut.applied
  /\ fnOut' = [applied |-> TRUE,
               isProcedure |-> IsProcedure(fnIn),
               isConsulta |-> IsConsulta(fnIn),
               normalizationIsConsulta |-> NormalizationIsConsulta(fnIn)]
  /\ UNCHANGED fnIn

VisitTypeNext == ClassifyApply

SpecVisitType == InitVisitType /\ [][VisitTypeNext]_vars

(***************************************************************************)
(* Floor text and building description of an emitted entry                 *)
(* (constants.ts:296-347, 363-384, 539-597)                                *)
(***************************************************************************)
\* the rooms, floor catalogs and building catalogs the function is applied to
FloorRooms ==
  [codigo_edificio : {Null, Num(1), Str(<<"2">>)},
   piso : {Null, Num(3), Str(<<>>)},
   CD_PISO : {Null},
   codigo_piso : {Null, Num(4)},
   des_piso : {Null, Str(<<>>), Str(<<"N">>)},
   DES_PISO : {Null, Str(<<>>), Str(<<"R">>)},
   descripcion_piso : {Null, Str(<<"D">>)}]
FloorAnswers ==
  {[success |-> FALSE, data |-> <<>>],
   [success |-> TRUE, data |-> <<>>],
   [success |-> TRUE, data |-> <<FloorEntry(Num(3), Str(<<"C">>)), FloorEntry(Num(4), Str(<<>>))>>],
   [success |-> TRUE, data |-> <<FloorEntry(Str(<<"4">>), Str(<<"F">>))>>]}
BuildingLists ==
  {<<>>,
   <<[codigo |-> Num(1), descripcion_edificio |-> Str(<<"T">>), nombre |-> Null]>>,
   <<[codigo |-> Str(<<"2">>), descripcion_edificio |-> Null, nombre |-> Str(<<"B">>)],
     [codigo |-> Num(1), descripcion_edificio |-> Null, nombre |-> Null]>>}
FloorInputs ==
  [found : BOOLEAN, room : FloorRooms, pisos : [Buildings -> FloorAnswers],
   edificios : BuildingLists]

InitFloor ==
  /\ ClockInit /\ GwInit /\ OqInit /\ EmInit /\ DcInit /\ SpInit /\ AuInit /\ ShInit /\ AgInit
  /\ fnIn \in FloorInputs
  /\ fnOut = NoValue

\* constants.ts:533-597, 702-706: the floor and building fields of the entry
\* emitted for a slot whose room is, or is not, in the room catalog
FloorApply ==
  /\ UNCHANGED fnOthers
  /\ ~fnOut.applied
  /\ LET consultorio == NormalizarConsultorio(fnIn.room)
     IN fnOut' = [applied |-> TRUE,
                  piso |-> PisoFormateado(fnIn.found, consultorio, fnIn.pisos),
                  edificioDescripcion |->
                    EdificioDescripcion(fnIn.found, consultorio, fnIn.edificios),
                  buildingCode |-> BuildingCode(fnIn.found, consultorio)]
  /\ UNCHANGED fnIn

FloorNext == FloorApply

SpecFloor == InitFloor /\ [][FloorNext]_vars

(***************************************************************************)
(* Day selectors of the schedule view: useDoctorScheduleUI                 *)
(***************************************************************************)
\* number of schedule entries of one day
MaxDayEntries == 2

\* String.prototype.toUpperCase, one character
UpperOf(ch) ==
  IF IsLowerChar(ch) THEN UpperChars[CHOOSE i \in 1..26 : LowerChars[i] = ch] ELSE ch
ToUpperCase(s) == [i \in 1..Len(s) |-> UpperOf(s[i])]

\* constants.ts:480-485
DecodeTipo(t) ==
  LET v == ToUpperCase(IF t = Null THEN <<>> ELSE JsString(t))
  IN IF v = <<"C">> THEN <<"C", "o", "n", "s", "u", "l", "t", "a">>
     ELSE IF v = <<"P">>
       THEN <<"P", "r", "o", "c", "e", "d", "i", "m", "i", "e", "n", "t", "o">>
       ELSE v

\* use-mobile.tsx:222, tipo: item.tipoTexto || undefined
EntryTipo(t) == IF DecodeTipo(t) = <<>> THEN Null ELSE Str(DecodeTipo(t))

\* the `tipo` codes of the slots the backend serves
RawTipos ==
  {Null, Str(<<>>), Str(<<"C">>), Str(<<"p">>), Str(<<"q", "x">>),
   Str(<<"c", "o", "n", "t", "r", "o", "l">>)}

\* doctorSchedules: null, or for each day with entries the visit types of
\* its entries (a day without entries is no key)
DaySchedules ==
  [isNull : {FALSE},
   days : [ShDays -> {[i \in 1..Len(l) |-> EntryTipo(l[i])] :
                        l \in SeqsUpTo(RawTipos, MaxDayEntries)}]]
    \cup {[isNull |-> TRUE, days |-> [d \in ShDays |-> <<>>]]}

\* use-doctor-schedule-ui.ts:31-37
ConsultaDays(ds, isConsulta(_)) ==
  {day \in ShDays : \E i \in 1..Len(ds.days[day]) : isConsulta(ds.days[day][i])}
\* use-doctor-schedule-ui.ts:42-48
ProcedimientoDays(ds) ==
  {day \in ShDays : \E i \in 1..Len(ds.days[day]) : IsProcedure(ds.days[day][i])}
\* use-doctor-schedule-ui.ts:53-55
AvailableDays(ds) == {day \in ShDays : Len(ds.days[day]) > 0}

InitDays ==
  /\ ClockInit /\ GwInit /\ OqInit /\ EmInit /\ DcInit /\ SpInit /\ AuInit /\ ShInit /\ AgInit
  /\ fnIn \in DaySchedules
  /\ fnOut = NoValue

\* the three memos computed for the drawn schedules: with the predicates of
\* useDataNormalization, as part_003:80-90 passes them, and with the pair of
\* use-doctor-schedule.ts
DaysApply ==
  /\ UNCHANGED fnOthers
  /\ ~fnOut.applied
  /\ fnOut' = [applied |-> TRUE,
               availableDays |-> AvailableDays(fnIn),
               consultaDays |-> ConsultaDays(fnIn, NormalizationIsConsulta),
               procedimientoDays |-> ProcedimientoDays(fnIn),
               consultaDaysOfPair |-> ConsultaDays(fnIn, IsConsulta)]
  /\ UNCHANGED fnIn

DaysNext == DaysApply

SpecDays == InitDays /\ [][DaysNext]_vars

(***************************************************************************)
(* slugify: part_000:10-18 (the same chain in part_004:253-261)            *)
(***************************************************************************)
\* String.prototype.normalize('NFD'), one character: a precomposed letter
\* becomes its base letter followed by the combining mark
DecomposeChar(ch) ==
  CASE ch = EAcute -> <<"e", CombAcute>>
    [] ch = CapEAcute -> <<"E", CombAcute>>
    [] ch = NTilde -> <<"n", CombTilde>>
    [] ch = CapIDot -> <<"I", CombDot>>
    [] OTHER -> <<ch>>

RECURSIVE NormalizeNFD(_)
NormalizeNFD(s) == IF s = <<>> THEN <<>> ELSE DecomposeChar(Head(s)) \o NormalizeNFD(Tail(s))

\* .replace(/[U+0300-U+036F]/g, '')
RECURSIVE StripCombining(_)
StripCombining(s) ==
  IF s = <<>> THEN <<>>
  ELSE IF IsCombining(Head(s)) THEN StripCombining(Tail(s))
       ELSE <<Head(s)>> \o StripCombining(Tail(s))

\* [a-z0-9]
IsSlugAlnum(ch) == IsLowerChar(ch) \/ IsDigitChar(ch)

\* s without its leading characters outside [a-z0-9]
RECURSIVE SkipNonAlnum(_)
SkipNonAlnum(s) ==
  IF s # <<>> /\ ~IsSlugAlnum(Head(s)) THEN SkipNonAlnum(Tail(s)) ELSE s

\* .replace(/[^a-z0-9]+/g, '-'): every run of other characters becomes one '-'
RECURSIVE ReplaceNonAlnum(_)
ReplaceNonAlnum(s) ==
  IF s = <<>> THEN <<>>
  ELSE IF IsSlugAlnum(Head(s)) THEN <<Head(s)>> \o ReplaceNonAlnum(Tail(s))
       ELSE <<"-">> \o ReplaceNonAlnum(SkipNonAlnum(s))

RECURSIVE StripLeadingHyphens(_)
StripLeadingHyphens(s) ==
  IF s # <<>> /\ Head(s) = "-" THEN StripLeadingHyphens(Tail(s)) ELSE s
RECURSIVE StripTrailingHyphens(_)
StripTrailingHyphens(s) ==
  IF s # <<>> /\ s[Len(s)] = "-"
    THEN StripTrailingHyphens(SubSeq(s, 1, Len(s) - 1)) ELSE s

\* .replace(/^-+|-+$/g, ''); the mutant strips the leading run only
StripHyphensLeadingOnly(s) == StripLeadingHyphens(s)
StripHyphens(s) == StripTrailingHyphens(StripLeadingHyphens(s))

\* part_000:10-18
slugify(input) ==
  StripHyphens(ReplaceNonAlnum(Trim(ToLowerCase(StripCombining(NormalizeNFD(input))))))

\* the characters the inputs of the model are made of
SlugChars == {"a", "Z", "7", "-", " ", "_", EAcute, CombAcute, NTilde, CapIDot}
SlugInputs == UNION {[1..n -> SlugChars] : n \in 0..MaxSlugLen}

InitSlugify ==
  /\ ClockInit /\ GwInit /\ OqInit /\ EmInit /\ DcInit /\ SpInit /\ AuInit /\ ShInit /\ AgInit
  /\ fnIn \in SlugInputs
  /\ fnOut = NoValue

\* slugify applied to the input, and once more to its result
SlugifyApply ==
  /\ UNCHANGED fnOthers
  /\ ~fnOut.applied
  /\ fnOut' = [applied |-> TRUE, slug |-> slugify(fnIn), again |-> slugify(slugify(fnIn))]
  /\ UNCHANGED fnIn

SlugifyNext == SlugifyApply

SpecSlugify == InitSlugify /\ [][SlugifyNext]_vars

(***************************************************************************)
(* toHHmm: constants.ts:452-477                                            *)
(***************************************************************************)
\* /^\d{2}:\d{2}$/
IsHHmm(s) ==
  /\ Len(s) = 5
  /\ \A i \in {1, 2, 4, 5} : IsDigitChar(s[i])
  /\ s[3] = ":"
\* /^\d{2}:\d{2}:\d{2}$/
IsHHmmss(s) ==
  /\ Len(s) = 8
  /\ \A i \in {1, 2, 4, 5, 7, 8} : IsDigitChar(s[i])
  /\ s[3] = ":" /\ s[6] = ":"
\* /^\d{3,4}$/
IsCompactTime(s) == Len(s) \in {3, 4} /\ IsDigits(s)

\* str.padStart(4, '0'); the mutant does not pad
PadStart4None(s) == s
RECURSIVE PadStart4(_)
PadStart4(s) == IF Len(s) >= 4 THEN s ELSE PadStart4(<<"0">> \o s)

\* `${padded.slice(0, 2)}:${padded.slice(2)}`
SplitHHmm(padded) ==
  SubSeq(padded, 1, 2) \o <<":">> \o SubSeq(padded, 3, Len(padded))

\* str.replace(/[^0-9]/g, '')
RECURSIVE OnlyDigits(_)
OnlyDigits(s) ==
  IF s = <<>> THEN <<>>
  ELSE IF IsDigitChar(Head(s)) THEN <<Head(s)>> \o OnlyDigits(Tail(s))
       ELSE OnlyDigits(Tail(s))

\* constants.ts:452-477
toHHmm(value) ==
  IF value = Null THEN <<>>
  ELSE LET str == Trim(JsString(value))
       IN IF str = <<>> THEN <<>>
          ELSE IF IsHHmm(str) THEN str
          ELSE IF IsHHmmss(str) THEN SubSeq(str, 1, 5)
          ELSE IF IsCompactTime(str) THEN SplitHHmm(PadStart4(str))
          ELSE IF Len(OnlyDigits(str)) \in {3, 4}
                 THEN SplitHHmm(PadStart4(OnlyDigits(str)))
                 ELSE str

\* the pieces the time texts of the model are made of
TimeParts == {<<"0", "8">>, <<"3", "0">>, <<"8">>, <<":">>, <<" ">>, <<".">>, <<"x">>}
\* a missing value, numbers, and the texts of up to MaxTimeParts pieces
TimeInputs ==
  {Null, Num(0), Num(830), Num(1330), Num(12345)} \cup
  {Str(Concat(ps)) : ps \in UNION {[1..n -> TimeParts] : n \in 0..MaxTimeParts}}

InitToHHmm ==
  /\ ClockInit /\ GwInit /\ OqInit /\ EmInit /\ DcInit /\ SpInit /\ AuInit /\ ShInit /\ AgInit
  /\ fnIn \in TimeInputs
  /\ fnOut = NoValue

ToHHmmApply ==
  /\ UNCHANGED fnOthers
  /\ ~fnOut.applied
  /\ fnOut' = [applied |-> TRUE, hhmm |-> toHHmm(fnIn)]
  /\ UNCHANGED fnIn

ToHHmmNext == ToHHmmApply

SpecToHHmm == InitToHHmm /\ [][ToHHmmNext]_vars

(***************************************************************************)
(* Authentication: src/lib/auth.ts                                         *)
(***************************************************************************)
AuthCallIds == 1..MaxAuthCalls
\* '' of auth.ts:6-7, and a field missing from a response body
NoToken == ""
Tokens(access, refresh) == [access |-> access, refresh |-> refresh]
NoTokens == Tokens(NoToken, NoToken)

\* what a POST to Auth/login or Auth/refresh ends in: a body with both
\* tokens, a body that lacks one or both, or a rejection
AuthResponses ==
  {[ok |-> TRUE, body |-> Tokens("a1", "r1")], [ok |-> TRUE, body |-> Tokens("a2", "r2")],
   [ok |-> TRUE, body |-> Tokens("a1", NoToken)], [ok |-> TRUE, body |-> NoTokens],
   [ok |-> FALSE, body |-> NoTokens]}

\* auth.ts:55-61 and 89-95: the call returns its tokens, or throws; the
\* mutant asks for the access token only
ReturnsTokensAccessOnly(res) == res.ok /\ res.body.access # NoToken
ReturnsTokens(res) == res.ok /\ res.body.access # NoToken /\ res.body.refresh # NoToken

\* auth.ts:107; the mutant logs in whether or not a token is cached
NeedsLoginAlways(token) == TRUE
NeedsLogin(token) == token = NoToken

\* auth.ts:109-110, 120-121, 125-126: what the two variables are set to; the
\* mutant forgets the refresh token
StoreTokensAccessOnly(tokens) == Tokens(tokens.accessToken, NoToken)
StoreTokens(tokens) == Tokens(tokens.accessToken, tokens.refreshToken)

\* auth.ts:61, 95
AuthTokens(body) == [accessToken |-> body.access, refreshToken |-> body.refresh]

\* The activation record of one getAccessToken() or refreshAuthTokenPublic().
\* cachedAtStart, netLog (the POSTs issued, in order), refreshSent (the
\* token sent to Auth/refresh), refreshFailed, got (the tokens the call that
\* succeeded returned) and stored (the two variables right after this
\* activation set them) are history for the properties.
NewAuthCall ==
  [op |-> "none", pc |-> "new", ret |-> NoToken, cachedAtStart |-> NoTokens,
   netLog |-> <<>>, refreshSent |-> NoToken, refreshFailed |-> FALSE,
   got |-> NoTokens, stored |-> NoTokens]

AuInitCalls == authCalls = [c \in AuthCallIds |-> NewAuthCall]

\* the module as loaded, or as left by earlier calls
AuInitDrawn ==
  /\ accessToken \in {NoToken, "a0"}
  /\ refreshToken = IF accessToken = NoToken THEN NoToken ELSE "r0"
  /\ AuInitCalls

NextAuthCall ==
  IF \E c \in AuthCallIds : authCalls[c].pc = "new"
    THEN CHOOSE c \in AuthCallIds :
           authCalls[c].pc = "new" /\ \A d \in AuthCallIds : d < c => authCalls[d].pc # "new"
    ELSE 0

\* getAccessToken up to its first await, auth.ts:106-108
GetAccessToken ==
  /\ UNCHANGED auOthers
  /\ NextAuthCall # 0
  /\ LET c == NextAuthCall
         start == [NewAuthCall EXCEPT !.op = "getAccessToken",
                                      !.cachedAtStart = Tokens(accessToken, refreshToken)]
     IN authCalls' =
          [authCalls EXCEPT ![c] =
             IF NeedsLogin(accessToken)
               THEN [start EXCEPT !.pc = "login", !.netLog = <<"login">>]
               ELSE [start EXCEPT !.pc = "returned", !.ret = accessToken]]
  /\ UNCHANGED <<accessToken, refreshToken>>

\* refreshAuthTokenPublic up to its first POST, auth.ts:117-119 and 71-87, or
\* 122-124 and 39-53 when refreshAuthToken throws for want of a token
RefreshAuthTokenPublic ==
  /\ UNCHANGED auOthers
  /\ NextAuthCall # 0
  /\ LET c == NextAuthCall
         start == [NewAuthCall EXCEPT !.op = "refreshAuthTokenPublic",
                                      !.cachedAtStart = Tokens(accessToken, refreshToken)]
     IN authCalls' =
          [authCalls EXCEPT ![c] =
             IF refreshToken = NoToken
               THEN [start EXCEPT !.pc = "fallback", !.netLog = <<"login">>,
                                  !.refreshFailed = TRUE]
               ELSE [start EXCEPT !.pc = "refresh", !.netLog = <<"refresh">>,
                                  !.refreshSent = refreshToken]]
  /\ UNCHANGED <<accessToken, refreshToken>>

\* the two variables set from the tokens a call returned, and the activation
\* returning
SetAndReturn(c, res) ==
  LET stored == StoreTokens(AuthTokens(res.body))
  IN /\ accessToken' = stored.access
     /\ refreshToken' = stored.refresh
     /\ authCalls' = [authCalls EXCEPT ![c].pc = "returned",
                                       ![c].ret = stored.access,
                                       ![c].got = res.body,
                                       ![c].stored = stored]

\* the POST to Auth/login has settled: auth.ts:55-67, then 109-112 or 125-126
LoginDone(c, res) ==
  /\ UNCHANGED auOthers
  /\ authCalls[c].pc \in {"login", "fallback"}
  /\ IF ReturnsTokens(res)
       THEN SetAndReturn(c, res)
       ELSE /\ authCalls' = [authCalls EXCEPT ![c].pc = "threw"]
            /\ UNCHANGED <<accessToken, refreshToken>>

\* the POST to Auth/refresh has settled: auth.ts:89-101, then 120-121, or
\* 122-124 and the login of 39-53
RefreshDone(c, res) ==
  /\ UNCHANGED auOthers
  /\ authCalls[c].pc = "refresh"
  /\ IF ReturnsTokens(res)
       THEN SetAndReturn(c, res)
       ELSE /\ authCalls' = [authCalls EXCEPT ![c].pc = "fallback",
                                              ![c].netLog = @ \o <<"login">>,
                                              ![c].refreshFailed = TRUE]
            /\ UNCHANGED <<accessToken, refreshToken>>

\* auth.ts:131-134
ClearAuthTokens ==
  /\ UNCHANGED auOthers
  /\ accessToken # NoToken
  /\ accessToken' = NoToken
  /\ refreshToken' = NoToken
  /\ UNCHANGED authCalls

\* auth.ts:137-139
HasValidToken == accessToken # NoToken

AuNext ==
  \/ GetAccessToken
  \/ RefreshAuthTokenPublic
  \/ \E c \in AuthCallIds, res \in AuthResponses : LoginDone(c, res)
  \/ \E c \in AuthCallIds, res \in AuthResponses : RefreshDone(c, res)
  \/ ClearAuthTokens

InitAuth ==
  /\ ClockInit /\ GwInit /\ OqInit /\ EmInit /\ DcInit /\ SpInit /\ ShInit /\ AgInit /\ FnInit
  /\ AuInitDrawn

SpecAuth == InitAuth /\ [][AuNext]_vars

GwNext ==
  \/ \E rq \in Requests, hasSignal \in BOOLEAN, aborted \in BOOLEAN :
        RequestStart(rq[1], rq[2], hasSignal, aborted)
  \/ \E c \in CallIds : ExternalAbort(c)
  \/ \E c \in CallIds : TimeoutFires(c)
  \/ \E c \in CallIds, ok \in BOOLEAN : FetchResponds(c, ok)
  \/ \E c \in CallIds, status \in Statuses \cup {200}, body \in OkBodies \cup ErrBodies :
        BodyRead(c, status, body)
  \/ \E c \in CallIds : FetchRejects(c)
  \/ \E d \in GwTimeSteps : GwTick(d)

Init == ClockInit /\ GwInit /\ OqInit /\ EmInit /\ DcInit /\ RestInit

SpecGateway == Init /\ [][GwNext]_vars

SpecOrchestrator == Init /\ [][OqNext]_vars

InitEmit == ClockInit /\ GwInit /\ OqInit /\ EmInitDrawn /\ DcInit /\ RestInit

EmNext == EmitApply

SpecEmit == InitEmit /\ [][EmNext]_vars

InitLabel == ClockInit /\ GwInit /\ OqInit /\ EmInitLabel /\ DcInit /\ RestInit

SpecLabel == InitLabel /\ [][EmNext]_vars

InitSchedule == ClockInit /\ GwInit /\ OqInit /\ EmInit /\ DcInit /\ RestInit

SpecSchedule == InitSchedule /\ [][ShNext]_vars

\* every request of a load settles: the token call, the axios requests and
\* the gateway requests of the orchestrator all resolve or reject
ShFairness == \A l \in 1..MaxShLoads : WF_vars(ShStep(l))

SpecScheduleFair == InitSchedule /\ [][ShNext]_vars /\ ShFairness

InitDoctorsCache == DcClockInit /\ GwInit /\ OqInit /\ EmInit /\ DcInitDrawn /\ RestInit

SpecDoctorsCache == InitDoctorsCache /\ [][DcNext]_vars

InitSpecialties ==
  ClockInit /\ GwInit /\ OqInit /\ EmInit /\ DcInit /\ SpInitDrawn /\ AuInit /\ ShInit /\ AgInit /\ FnInit

SpecSpecialties == InitSpecialties /\ [][SpNext]_vars

InitAgendas == ClockInit /\ GwInit /\ OqInit /\ EmInit /\ DcInit /\ RestInit

SpecAgendas == InitAgendas /\ [][AgNext]_vars

(***************************************************************************)
(* Properties of the gateway                                               *)
(***************************************************************************)
Started(c) == calls[c].st # "new"
Resolved(c) == calls[c].st = "resolved"

\* C2 (as stated): two GET calls to the same endpoint started less than 30 s
\* apart issue one network request in total, and the second returns the
\* payload of the first.
C2_OneRequestWithin30s ==
  \A c1, c2 \in CallIds :
    (/\ c1 < c2 /\ Started(c1) /\ Started(c2)
     /\ IsGet(calls[c1].method) /\ IsGet(calls[c2].method)
     /\ calls[c1].ep = calls[c2].ep
     /\ calls[c2].start - calls[c1].start < CACHE_TTL)
    => /\ ~(calls[c1].netIssued /\ calls[c2].netIssued)
       /\ (Resolved(c1) /\ Resolved(c2)) => calls[c2].result = calls[c1].result

\* C2 (amended): a GET call that starts less than 30 s after the latest
\* network GET to the same endpoint completed with a 2xx answer issues no
\* network request and returns, at once, the payload of that earlier call.
C2_CachedWithinTTL ==
  \A c \in CallIds :
    (/\ Started(c) /\ IsGet(calls[c].method)
     /\ calls[c].prevOk # NoCall
     /\ calls[c].prevOkFresh)
    => /\ ~calls[c].netIssued
       /\ Resolved(c)
       /\ calls[c].result = Ok(calls[calls[c].prevOk].result.data)

C2_Witness ==
  \E c \in CallIds :
    /\ Resolved(c) /\ calls[c].prevOk # NoCall
    /\ calls[c].prevOkFresh
    /\ calls[c].start > calls[calls[c].prevOk].start
    /\ calls[calls[c].prevOk].netIssued
    /\ calls[c].result.data \in Payloads

\* C3 (as stated): request never lets an exception escape; every outcome of
\* fetch resolves to {success:true,data} or {success:false,message}; a
\* timeout gives "Request timeout", any other caught error its own message.
C3_NeverThrowsAndMessages ==
  \A c \in CallIds :
    /\ calls[c].st # "threw"
    /\ Resolved(c) =>
         /\ calls[c].result.success => calls[c].result.message = Undefined
         /\ ~calls[c].result.success =>
               /\ calls[c].result.data = NullData
               /\ calls[c].result.message # Undefined
         /\ calls[c].error.cause = "timeout" => calls[c].result.message = "Request timeout"
         /\ calls[c].error.cause \in {"external", "network"} =>
               calls[c].result.message = calls[c].error.message

(***************************************************************************)
(* Properties of the orchestrator                                          *)
(***************************************************************************)
\* the provider code of a slot as the claims word it: the first present of
\* the five alias fields, as a string
FirstPresentProviderCode(a) ==
  IF a.codigo_prestador # Null THEN JsString(a.codigo_prestador)
  ELSE IF a.codigoPrestador # Null THEN JsString(a.codigoPrestador)
  ELSE IF a.cd_prestador # Null THEN JsString(a.cd_prestador)
  ELSE IF a.prestadorId # Null THEN JsString(a.prestadorId)
  ELSE IF a.medicoId # Null THEN JsString(a.medicoId)
  ELSE <<>>

\* the item-agendamiento code of a slot, as a string
ItemCodeAsString(a) ==
  IF a.codigo_item_agendamiento # Null THEN JsString(a.codigo_item_agendamiento)
  ELSE IF a.id # Null THEN JsString(a.id)
  ELSE IF a.codigo # Null THEN JsString(a.codigo)
  ELSE <<>>

\* the requested specialty ids, as a set of strings
WantedSet(especialidadId) ==
  IF especialidadId.kind = "list"
    THEN {JsString(especialidadId.l[i]) : i \in 1..Len(especialidadId.l)}
    ELSE {JsString(especialidadId.v)}

EmittedFrom(a) == \E j \in 1..Len(emOut.data) : emOut.data[j].slot = a
OfRequestedProvider(a) == FirstPresentProviderCode(a) = JsString(emIn.codigoPrestador)

\* C1: every entry returned comes from a fetched slot whose provider code
\* equals String(P); a slot of another provider never appears, with or
\* without a specialty filter.
C1_OnlyRequestedProvider ==
  emOut.done =>
    \A j \in 1..Len(emOut.data) :
      /\ \E i \in 1..Len(emIn.agendas) : emIn.agendas[i] = emOut.data[j].slot
      /\ OfRequestedProvider(emOut.data[j].slot)

C1_Witness ==
  /\ emOut.done
  /\ Len(emOut.data) > 0
  /\ \E i \in 1..Len(emIn.agendas) :
       /\ ~OfRequestedProvider(emIn.agendas[i])
       /\ FirstPresentProviderCode(emIn.agendas[i]) # <<>>
       /\ emIn.especialidadId.kind # "none" =>
            ItemCodeAsString(emIn.agendas[i]) \in WantedSet(emIn.especialidadId)

\* C7 (as stated): with a filter, a slot of the requested provider is
\* emitted if and only if its item-agendamiento code, as a string, is in
\* the requested set; without a filter none is dropped for its code.
C7_EmittedIffMember ==
  emOut.done =>
    \A i \in 1..Len(emIn.agendas) :
      OfRequestedProvider(emIn.agendas[i]) =>
        (EmittedFrom(emIn.agendas[i]) <=>
           \/ emIn.especialidadId.kind = "none"
           \/ ItemCodeAsString(emIn.agendas[i]) \in WantedSet(emIn.especialidadId))

\* C7 (amended): with a filter, a slot of the requested provider is emitted
\* if and only if its item-agendamiento code, trimmed of surrounding blanks,
\* consists of digits only and is in the requested set; without a filter
\* none is dropped for its code.
C7_EmittedIffDigitsMember ==
  emOut.done =>
    \A i \in 1..Len(emIn.agendas) :
      OfRequestedProvider(emIn.agendas[i]) =>
        (EmittedFrom(emIn.agendas[i]) <=>
           \/ emIn.especialidadId.kind = "none"
           \/ /\ IsDigits(Trim(ItemCodeAsString(emIn.agendas[i])))
              /\ Trim(ItemCodeAsString(emIn.agendas[i])) \in WantedSet(emIn.especialidadId))

C7_Witness ==
  /\ emOut.done
  /\ emIn.especialidadId.kind # "none"
  /\ \E i, k \in 1..Len(emIn.agendas) :
       /\ OfRequestedProvider(emIn.agendas[i]) /\ EmittedFrom(emIn.agendas[i])
       /\ OfRequestedProvider(emIn.agendas[k]) /\ ~EmittedFrom(emIn.agendas[k])

InitialResults ==
  <<agendasRes, fan["medicos"], fan["consultorios"], fan["edificios"], fan["dias"]>>

\* C4: success is true exactly when the five initial fetches succeeded, the
\* message is that of the first failing one in the order schedule slots,
\* doctors, rooms, buildings, days (undefined when none failed), and a
\* failing fetch keeps none of the others from being issued or used.
C4_SuccessIsConjunction ==
  /\ oqPc # "idle" => \A n \in FetchNames : invoked[n] >= 1
  /\ oqPc = "done" =>
       /\ oqOut.success <=> (\A i \in 1..5 : InitialResults[i].success)
       /\ oqOut.message =
            (IF ~agendasRes.success THEN agendasRes.message
             ELSE IF ~fan["medicos"].success THEN fan["medicos"].message
             ELSE IF ~fan["consultorios"].success THEN fan["consultorios"].message
             ELSE IF ~fan["edificios"].success THEN fan["edificios"].message
             ELSE IF ~fan["dias"].success THEN fan["dias"].message
             ELSE Undefined)
       /\ \A j \in 1..Len(oqOut.data) :
            /\ fan["medicos"].success =>
                 oqOut.data[j].medico =
                   JsString(Coalesce(<<MedicoPorId(AsList(fan["medicos"].data),
                                                   JsString(oqIn.codigoPrestador)).nombres>>, Str(<<>>)))
            /\ fan["consultorios"].success =>
                 oqOut.data[j].consultorioCodigo =
                   ConsultorioPorCodigo(AsList(fan["consultorios"].data),
                                        JsString(Coalesce(<<oqOut.data[j].slot.codigo_consultorio>>, Str(<<>>)))).codigo

C4_Witness ==
  /\ oqPc = "done"
  /\ ~oqOut.success
  /\ ~fan["consultorios"].success /\ ~fan["dias"].success
  /\ agendasRes.success /\ fan["medicos"].success
  /\ oqOut.message = fan["consultorios"].message
  /\ \E j \in 1..Len(oqOut.data) : oqOut.data[j].medico # <<>>

\* C5: the schedule-slot fetch is invoked at most twice in one call, a
\* second time exactly when the first invocation yielded an empty slot
\* list; no other fetch is repeated.
C5_AtMostOneRetry ==
  /\ invoked["agendas"] <= 2
  /\ \A n \in Catalogs : invoked[n] <= 1
  /\ \A b \in Buildings : pisos[b].invoked <= 1
  /\ invoked["agendas"] = 2 => agendasRes # Pending /\ AsList(agendasRes.data) = <<>>
  /\ oqPc \in {"pisos", "done"} =>
       (invoked["agendas"] = 2 <=> AsList(agendasRes.data) = <<>>)

C5_Witness ==
  /\ oqPc = "done"
  /\ invoked["agendas"] = 2
  /\ agendasRes.success
  /\ Len(oqOut.data) > 0
  /\ \E b \in Buildings : pisos[b].invoked = 1

\* C6: getAgendasPorMedico returns the codigo_prestador answer, without
\* issuing the cd_prestador query, when that answer is successful and
\* non-empty; otherwise it issues the cd_prestador query and returns its
\* answer when non-empty; the two slot lists are never merged.
C6_FirstNonEmptyWins ==
  agCall.st = "returned" =>
    /\ (agCall.first.success /\ AsList(agCall.first.data) # <<>>)
         => agCall.ret = agCall.first /\ ~agCall.secondIssued
    /\ ~(agCall.first.success /\ AsList(agCall.first.data) # <<>>)
         => /\ agCall.secondIssued
            /\ AsList(agCall.second.data) # <<>> => agCall.ret = agCall.second
    /\ agCall.ret \in {agCall.first, agCall.second}

C6_Witness ==
  /\ agCall.st = "returned"
  /\ agCall.secondIssued
  /\ agCall.first.success
  /\ AsList(agCall.second.data) # <<>>
  /\ agCall.ret = agCall.second

(***************************************************************************)
(* Properties of the doctor-list cache                                     *)
(***************************************************************************)
LoadStarted(l) == loads[l].st # "new"
LoadDone(l) == loads[l].st = "done"

\* the persisted entry a load found: one whose timestamp is less than 24 h old
FoundYoungEntry(l) ==
  /\ loads[l].startEntry.kind = "entry"
  /\ loads[l].startAt - loads[l].startEntry.timestamp < CACHE_DURATION
\* none, or one that is 24 h old or older
FoundNoneOrOld(l) ==
  \/ loads[l].startEntry.kind = "none"
  \/ /\ loads[l].startEntry.kind = "entry"
     /\ loads[l].startAt - loads[l].startEntry.timestamp >= CACHE_DURATION

ServedFromCache(l) ==
  /\ LoadDone(l)
  /\ ~loads[l].fetched
  /\ loads[l].after.isFromCache
  /\ ~loads[l].after.loading
  /\ loads[l].after.doctors = loads[l].startEntry.doctors

WroteEntry(l) ==
  /\ loads[l].wrote.kind = "entry"
  /\ loads[l].wrote.timestamp = loads[l].doneAt
  /\ loads[l].wrote.sessionId = loads[l].sessionId

C10_AbsentAfterPageHide == hidden # "no" => storage.kind = "none"

(***************************************************************************)
(* Properties of the specialties page                                      *)
(***************************************************************************)
\* the entry fetchSpecialties found is no well-formed {ts, data: [...]}
SpFoundMalformed ==
  /\ spRun.pc # "idle"
  /\ \/ spRun.startEntry.kind \in {"notJson", "null"}
     \/ /\ spRun.startEntry.kind = "object"
        /\ spRun.startEntry.ts = 0 \/ ~spRun.startEntry.isArray

\* C11: a malformed persisted entry is treated as a cache miss: the load goes
\* on to fetch from the backend, and an error is shown only if that fetch
\* failed.  Stated for the specialty list in session storage.
C11_MalformedIsMiss ==
  SpFoundMalformed =>
    /\ spRun.fetched
    /\ spView.error # NoSpError => spRun.rejected

\* C11 for the doctor list in local storage: a load that found text that does
\* not parse goes on to getDoctores and sets no error.
C11_DoctorsMalformedIsMiss ==
  \A l \in LoadIds :
    loads[l].st # "new" /\ loads[l].startEntry.kind = "malformed" =>
      /\ loads[l].fetched
      /\ loads[l].st = "done" => loads[l].after.error \in {"null", "<none>"}

(***************************************************************************)
(* Properties of the visit-type predicates                                 *)
(***************************************************************************)
\* C18: for every visit-type value exactly one of isProcedure and isConsulta
\* is true, in every module that defines the pair.
C18_ExactlyOneKind ==
  fnOut.applied =>
    /\ fnOut.isProcedure # fnOut.isConsulta
    /\ fnOut.isProcedure # fnOut.normalizationIsConsulta

\* C18 for the pair of part_000 and use-doctor-schedule.ts alone
C18_UtilPairComplementary ==
  fnOut.applied => fnOut.isProcedure # fnOut.isConsulta

(***************************************************************************)
(* Properties of slugify                                                   *)
(***************************************************************************)
\* C19: for every input string slugify(x) consists only of a-z, 0-9 and '-',
\* has no leading and no trailing '-', and slugify(slugify(x)) = slugify(x).
C19_SlugShapeAndIdempotent ==
  fnOut.applied =>
    /\ \A i \in 1..Len(fnOut.slug) : IsSlugAlnum(fnOut.slug[i]) \/ fnOut.slug[i] = "-"
    /\ fnOut.slug # <<>> => fnOut.slug[1] # "-" /\ fnOut.slug[Len(fnOut.slug)] # "-"
    /\ fnOut.again = fnOut.slug

\* an input with an accented letter, a capital and a separator at its end
C19_Witness ==
  /\ fnOut.applied
  /\ fnIn = <<EAcute, "Z", "_">>
  /\ fnOut.slug = <<"e", "z">>

(***************************************************************************)
(* Properties of toHHmm                                                    *)
(***************************************************************************)
\* the text of the argument, and that text without surrounding whitespace
TimeText == IF fnIn = Null THEN <<>> ELSE JsString(fnIn)
TimeTrimmed == Trim(TimeText)
\* the digits zero-padded to four and split two and two
PaddedSplit(digits) ==
  LET p == [i \in 1..(4 - Len(digits)) |-> "0"] \o digits
  IN <<p[1], p[2], ":", p[3], p[4]>>

\* C20: toHHmm returns an HH:mm input unchanged, drops the seconds of an
\* HH:mm:ss input, turns a compact numeric input of 3 or 4 digits into HH:mm
\* by zero-padding to 4 digits and splitting 2+2, maps the empty or missing
\* value to "", and returns every other input unchanged.
C20_ToHHmmAsStated ==
  fnOut.applied =>
    IF TimeText = <<>> THEN fnOut.hhmm = <<>>
    ELSE IF IsHHmm(TimeText) THEN fnOut.hhmm = TimeText
    ELSE IF IsHHmmss(TimeText) THEN fnOut.hhmm = SubSeq(TimeText, 1, 5)
    ELSE IF IsCompactTime(TimeText) THEN fnOut.hhmm = PaddedSplit(TimeText)
    ELSE fnOut.hhmm = TimeText

\* C20, amended: the cases apply to the text without its surrounding
\* whitespace, a text that is neither of the three forms but holds 3 or 4
\* digits in all is turned into HH:mm from those digits, and every other
\* text is returned trimmed.
C20_ToHHmmTrimmedDigits ==
  fnOut.applied =>
    IF TimeTrimmed = <<>> THEN fnOut.hhmm = <<>>
    ELSE IF IsHHmm(TimeTrimmed) THEN fnOut.hhmm = TimeTrimmed
    ELSE IF IsHHmmss(TimeTrimmed) THEN fnOut.hhmm = SubSeq(TimeTrimmed, 1, 5)
    ELSE IF Len(OnlyDigits(TimeTrimmed)) \in {3, 4}
           THEN fnOut.hhmm = PaddedSplit(OnlyDigits(TimeTrimmed))
    ELSE fnOut.hhmm = TimeTrimmed

\* "8.30", neither of the three forms, becomes "08:30"
C20_Witness ==
  /\ fnOut.applied
  /\ fnIn = Str(<<"8", ".", "3", "0">>)
  /\ fnOut.hhmm = <<"0", "8", ":", "3", "0">>

(***************************************************************************)
(* Properties of the authentication module                                 *)
(***************************************************************************)
AuthReturned(c) == authCalls[c].pc = "returned"

\* C13: getAccessToken returns the cached access token without any network
\* call whenever one is cached; when none is cached it performs one login
\* call, caches both tokens of the response and returns that access token.
C13_CachedOrLogin ==
  \A c \in AuthCallIds :
    authCalls[c].op = "getAccessToken" =>
      IF authCalls[c].cachedAtStart.access # NoToken
        THEN /\ authCalls[c].netLog = <<>>
             /\ AuthReturned(c)
             /\ authCalls[c].ret = authCalls[c].cachedAtStart.access
        ELSE /\ authCalls[c].netLog = <<"login">>
             /\ AuthReturned(c) =>
                  /\ authCalls[c].got.access # NoToken
                  /\ authCalls[c].got.refresh # NoToken
                  /\ authCalls[c].stored = authCalls[c].got
                  /\ authCalls[c].ret = authCalls[c].got.access

\* one call logged in and returned its token, a later one was served the
\* cached token
C13_Witness ==
  /\ authCalls[1].op = "getAccessToken" /\ authCalls[2].op = "getAccessToken"
  /\ authCalls[1].netLog = <<"login">> /\ AuthReturned(1)
  /\ authCalls[2].netLog = <<>> /\ AuthReturned(2)
  /\ authCalls[2].ret = authCalls[1].got.access

\* C14: refreshAuthTokenPublic first attempts the refresh call with the
\* cached refresh token; whenever that attempt fails, including for want of
\* a cached refresh token, it performs a fresh login; the call that succeeds
\* replaces both cached tokens with the pair it returned, and only if the
\* fallback login also fails is an error thrown.
C14_RefreshThenLogin ==
  \A c \in AuthCallIds :
    authCalls[c].op = "refreshAuthTokenPublic" =>
      LET a == authCalls[c] IN
      /\ IF a.cachedAtStart.refresh # NoToken
           THEN /\ a.netLog \in {<<"refresh">>, <<"refresh", "login">>}
                /\ a.refreshSent = a.cachedAtStart.refresh
           ELSE a.netLog = <<"login">>
      /\ a.refreshFailed <=> a.netLog[Len(a.netLog)] = "login"
      /\ a.pc = "returned" =>
           /\ a.got.access # NoToken /\ a.got.refresh # NoToken
           /\ a.stored = a.got
      /\ a.pc = "threw" => a.refreshFailed

\* a refresh that failed and a fallback login that succeeded, and a refresh
\* that succeeded
C14_Witness ==
  /\ authCalls[1].op = "refreshAuthTokenPublic"
  /\ authCalls[1].netLog = <<"refresh", "login">> /\ AuthReturned(1)
  /\ authCalls[2].op = "refreshAuthTokenPublic"
  /\ authCalls[2].netLog = <<"refresh">> /\ AuthReturned(2)
  /\ authCalls[2].refreshSent = authCalls[1].got.refresh

(***************************************************************************)
(* Properties of the gateway: cancellation and error messages              *)
(***************************************************************************)
InFlight(c) == calls[c].st \in {"fetching", "body"}
\* the controller of the call has been aborted, or its timer is due and the
\* callback is about to run
AbortedOrAboutTo(c) == calls[c].abortReason # NoError \/ TimerDue(c)

\* C15: a request in flight is aborted as soon as either its external signal
\* fires or its 30-second timeout elapses (an external signal that is already
\* aborted when the request starts aborts it at once); in both cases the call
\* resolves with success = false.
C15_AbortedBySignalOrTimeout ==
  \A c \in CallIds :
    /\ InFlight(c) /\ calls[c].signal = "aborted" => AbortedOrAboutTo(c)
    /\ InFlight(c) /\ now - calls[c].start >= TIMEOUT => AbortedOrAboutTo(c)
    /\ Resolved(c) /\ calls[c].abortReason # NoError => ~calls[c].result.success

\* C15 for the time fetch is pending, before the response has arrived
C15_AbortedWhileFetchPending ==
  \A c \in CallIds :
    /\ calls[c].st = "fetching" /\ calls[c].signal = "aborted" => AbortedOrAboutTo(c)
    /\ calls[c].st = "fetching" /\ now - calls[c].start >= TIMEOUT => AbortedOrAboutTo(c)
    /\ Resolved(c) /\ calls[c].abortReason # NoError => ~calls[c].result.success

\* the message the claim C16 gives for a non-2xx response
StatedErrorMessage(status, body) ==
  IF body.json /\ body.msg \notin {NoMsg, ""} THEN body.msg
  ELSE IF body.text # "" THEN body.text
  ELSE HttpErrorMessage(status)

\* C16: for a non-2xx response the gateway returns {success:false, message}
\* where message is the `message` field of the JSON body when present,
\* otherwise the raw response text when that is non-empty, otherwise a message
\* derived from the HTTP status.
C16_ErrorMessageFallbacks ==
  \A c \in CallIds :
    Resolved(c) /\ calls[c].status \in Statuses =>
      calls[c].result = Fail(StatedErrorMessage(calls[c].status, calls[c].body))

\* C16 without the raw text: the `message` field when non-empty, otherwise
\* the message derived from the status
C16_MessageFieldOrStatus ==
  \A c \in CallIds :
    Resolved(c) /\ calls[c].status \in Statuses =>
      calls[c].result =
        Fail(IF calls[c].body.json /\ calls[c].body.msg \notin {NoMsg, ""}
               THEN calls[c].body.msg ELSE HttpErrorMessage(calls[c].status))

(***************************************************************************)
(* Specialty label of emitted entries                                      *)
(***************************************************************************)
\* the catalogue record of the doctor of a slot, NoDoctor when there is none
DoctorOfSlot(a) == MedicoPorId(emIn.medicos, PrestadorId(a))

\* no entry of the doctor's specialty list has the slot's item code as id
NoSpecialtyMatch(a) ==
  \A i \in 1..Len(DoctorOfSlot(a).especialidades.list) :
    EspId(DoctorOfSlot(a).especialidades.list[i]) # CodigoItemAgendamiento(a)

HasSpecialtyList(a) ==
  /\ DoctorOfSlot(a).especialidades.isArray
  /\ Len(DoctorOfSlot(a).especialidades.list) > 0

\* C17 as stated: with a specialty filter active, an entry emitted for a slot
\* whose item code is the id of no entry of the doctor's specialty list has
\* no specialty label, and so has one whose doctor has no specialty list.
C17_NoLabelWithoutMatch ==
  (emOut.done /\ emIn.especialidadId.kind # "none") =>
    \A j \in 1..Len(emOut.data) :
      NoSpecialtyMatch(emOut.data[j].slot) => emOut.data[j].especialidad = Null

\* C17: with a specialty filter active, an entry emitted for a slot whose
\* item code is the id of no entry of the doctor's specialty list carries the
\* label of the FIRST entry of that list (its descripcion, else its nombre,
\* else the empty text; the entry itself when it is a plain truthy value,
\* and nothing when it is null, 0 or ''); it has no label when the doctor has
\* no specialty list, an empty one, or is not in the catalogue. Every such
\* slot gets an entry: the computation does not throw.
C17_LabelOfFirstSpecialty ==
  (emOut.done /\ emIn.especialidadId.kind # "none") =>
    /\ \A j \in 1..Len(emOut.data) :
         LET a == emOut.data[j].slot
             first == DoctorOfSlot(a).especialidades.list[1]
         IN NoSpecialtyMatch(a) =>
              emOut.data[j].especialidad =
                IF ~HasSpecialtyList(a) THEN Null
                ELSE IF first.isObject
                  THEN IF first.descripcion # Null THEN Str(JsString(first.descripcion))
                       ELSE IF first.nombre # Null THEN Str(JsString(first.nombre))
                       ELSE Str(<<>>)
                ELSE IF first.value \in {Null, Num(0), Str(<<>>)} THEN Null
                ELSE Str(JsString(first.value))
    /\ \A i \in 1..Len(emIn.agendas) :
         (/\ OfRequestedProvider(emIn.agendas[i])
          /\ IsDigits(Trim(ItemCodeAsString(emIn.agendas[i])))
          /\ Trim(ItemCodeAsString(emIn.agendas[i])) \in WantedSet(emIn.especialidadId))
           => EmittedFrom(emIn.agendas[i])

\* a filter is active, the doctor has specialties, none of them has the
\* slot's code, and the emitted entry is labelled with the first of them
C17_Witness ==
  /\ emOut.done /\ emIn.especialidadId.kind # "none"
  /\ \E j \in 1..Len(emOut.data) :
       /\ NoSpecialtyMatch(emOut.data[j].slot)
       /\ HasSpecialtyList(emOut.data[j].slot)
       /\ emOut.data[j].especialidad = Str(<<"D", "e", "r", "m">>)

(***************************************************************************)
(* Cancelled loads of the view hooks                                       *)
(***************************************************************************)
\* C12 as stated: a load whose cancellation signal fired before it completed
\* applies none of its results to the state of the hook and sets no error,
\* neither the general error nor the error of an operation.
C12_CancelledLoadIsNoOp ==
  \A l \in DOMAIN shLoads :
    /\ ~shLoads[l].afterAbort.applied
    /\ shLoads[l].afterAbort.errors = {}

\* what does hold of a cancelled load of the schedule hook: it applies no
\* doctor info, schedules or selection and does not set the general error
C12_CancelledNoResultsNoGeneralError ==
  \A l \in DOMAIN shLoads :
    /\ ~shLoads[l].afterAbort.applied
    /\ "general" \notin shLoads[l].afterAbort.errors

\* a cancelled load has left the text 'canceled' as the error of an
\* operation of a load for other parameters that has completed
C12_StaleCanceledShown ==
  /\ shAlive
  /\ \E l \in DOMAIN shLoads :
       /\ shLoads[l].signal = "live" /\ shLoads[l].outcome = "applied"
       /\ shView.doctorInfo = shLoads[l].params.key
  /\ shView.errors["specialty"] = "canceled"

\* the doctor-list load is such a no-op: a load that completes after its
\* signal fired leaves the list, the flags and the persisted entry alone
C12_DoctorListCancelledIsNoOp ==
  \A l \in LoadIds :
    loads[l].doneAborted =>
      /\ loads[l].wrote = NewLoad.wrote
      /\ loads[l].after = NewLoad.after

(***************************************************************************)
(* Timer and listener of a resolved request                                *)
(***************************************************************************)
\* C25 as stated: once a request has resolved, on every path, its timeout
\* timer is no longer pending and its abort listener is no longer registered
\* on the external signal.
C25_ResolvedHasNoTimerNoListener ==
  \A c \in CallIds :
    calls[c].st = "resolved" => ~calls[c].timerPending /\ ~calls[c].listenerOn

\* what does hold: a request that resolved from the cache or after fetch
\* returned a response (2xx or not) has neither, and a request that resolved
\* by its timeout has no pending timer
C25_CleanedWhenFetchReturned ==
  \A c \in CallIds :
    calls[c].st = "resolved" =>
      /\ calls[c].error = NoError => ~calls[c].timerPending /\ ~calls[c].listenerOn
      /\ calls[c].error = TimeoutError => ~calls[c].timerPending

(***************************************************************************)
(* Content of the in-memory cache                                          *)
(***************************************************************************)
\* what the backend served in a body: the parsed value of a JSON body, the
\* text of any other
ServedBody(body) == IF body.json THEN body.val ELSE body.text

\* the call is a GET that got a 2xx response and has read its body
IsOkGetFor(c, key) ==
  /\ calls[c].st = "resolved" /\ calls[c].netIssued /\ calls[c].error = NoError
  /\ calls[c].ok
  /\ IsGet(calls[c].method) /\ CacheKey(calls[c].method, calls[c].ep) = key

\* the call was answered from the cache
IsCacheHit(c) == calls[c].st = "resolved" /\ ~calls[c].netIssued /\ calls[c].error = NoError

\* C26 as stated: each cache entry holds the body of a 2xx GET response for
\* its key, and a cache hit returns success = true with data the backend
\* served for that URL.
C26_EntryIsServedBody ==
  /\ \A key \in CacheKeys :
       inMemoryCache[key] # NoEntry =>
         \E c \in CallIds :
           IsOkGetFor(c, key) /\ inMemoryCache[key].data = ServedBody(calls[c].body)
  /\ \A c \in CallIds :
       IsCacheHit(c) =>
         /\ calls[c].result.success
         /\ \E d \in CallIds :
              /\ IsOkGetFor(d, CacheKey(calls[c].method, calls[c].ep))
              /\ calls[c].result.data = ServedBody(calls[d].body)

\* what does hold: an entry is created or changed only by a GET that read a
\* 2xx body, it holds the parsed value of a JSON body and null for any other
\* body, and a cache hit returns success = true with the data of the entry
\* of such a GET
C26_EntryOnlyFromOkGet ==
  /\ [](\A key \in CacheKeys :
          inMemoryCache[key] # NoEntry =>
            \E c \in CallIds :
              /\ IsOkGetFor(c, key)
              /\ inMemoryCache[key].data =
                   IF calls[c].body.json THEN calls[c].body.val ELSE NullData)
  /\ [](\A c \in CallIds :
          IsCacheHit(c) =>
            /\ calls[c].result.success
            /\ \E d \in CallIds :
                 /\ IsOkGetFor(d, CacheKey(calls[c].method, calls[c].ep))
                 /\ calls[c].result.data =
                      IF calls[d].body.json THEN calls[d].body.val ELSE NullData)
  /\ [][\A key \in CacheKeys :
          inMemoryCache'[key] # inMemoryCache[key] =>
            \E c \in CallIds :
              /\ calls[c].st = "body" /\ calls[c].ok
              /\ IsOkGetFor(c, key)']_vars

(***************************************************************************)
(* The two cached tokens                                                   *)
(***************************************************************************)
\* C27: in every state reached by getAccessToken, refreshAuthTokenPublic and
\* clearAuthTokens calls, in any interleaving and whether their logins and
\* refreshes succeed or fail, the cached access token and the cached refresh
\* token are both empty or both non-empty, and hasValidToken() is true
\* exactly when they are non-empty.
C27_TokensBothOrNeither ==
  /\ (accessToken = NoToken) <=> (refreshToken = NoToken)
  /\ HasValidToken <=> (accessToken # NoToken /\ refreshToken # NoToken)

\* one call has thrown, and a refreshAuthTokenPublic that fell back to login
\* has set both tokens
C27_Witness ==
  /\ \E c \in AuthCallIds : authCalls[c].pc = "threw"
  /\ \E c \in AuthCallIds :
       /\ authCalls[c].pc = "returned"
       /\ authCalls[c].stored # NoTokens
       /\ authCalls[c].refreshFailed
  /\ accessToken # NoToken /\ refreshToken # NoToken

(***************************************************************************)
(* The persisted doctor list after a failed fetch                          *)
(***************************************************************************)
\* the load fetched, and getDoctores resolved with success = false
FetchFailed(l) == loads[l].st = "done" /\ loads[l].fetched /\ ~loads[l].resSuccess

\* C28 as stated: a load whose doctor-list request failed writes no entry,
\* and no load is served from the cache an entry written by a failed load.
C28_NoEntryFromFailedFetch ==
  /\ \A l \in LoadIds : FetchFailed(l) => loads[l].wrote = NoStored
  /\ \A l, k \in LoadIds :
       (loads[l].fromCache /\ FetchFailed(k)) => loads[l].startEntry # loads[k].wrote

\* what does hold: a load that was not cancelled writes the list it took from
\* the answer, which is the empty list for a failed request and for a body
\* of another shape, and a cancelled load writes nothing
C28_EntryHoldsListOfAnswer ==
  \A l \in LoadIds :
    (loads[l].st = "done" /\ loads[l].fetched) =>
      /\ loads[l].doneAborted => loads[l].wrote = NoStored
      /\ (~loads[l].doneAborted /\ ~loads[l].resSuccess) =>
           loads[l].wrote.kind = "entry" /\ loads[l].wrote.doctors = <<>>
      /\ (~loads[l].doneAborted /\ loads[l].resSuccess) =>
           loads[l].wrote.kind = "entry" /\ loads[l].wrote.doctors \in DcLists \cup {<<>>}

(***************************************************************************)
(* Days with schedules and the two selectors                               *)
(***************************************************************************)
\* C29 as stated: every day with at least one schedule entry is a member of
\* consultaDays or of procedimientoDays, whatever visit types its entries
\* carry.
C29_AvailableDayInSomeSelector ==
  fnOut.applied =>
    fnOut.availableDays \subseteq (fnOut.consultaDays \cup fnOut.procedimientoDays)

\* what does hold: the selectors list only days with entries, and with the
\* isConsulta of use-doctor-schedule.ts, the negation of isProcedure, every
\* day with entries is in one of them
C29_SelectorsWithinAvailable ==
  fnOut.applied =>
    /\ (fnOut.consultaDays \cup fnOut.procedimientoDays) \subseteq fnOut.availableDays
    /\ fnOut.availableDays \subseteq (fnOut.consultaDaysOfPair \cup fnOut.procedimientoDays)

(***************************************************************************)
(* Termination of the loads of the schedule hook                           *)
(***************************************************************************)
\* the load has ended on a mounted hook without its signal having fired
EndedUncancelled(l) ==
  shLoads[l].pc = "done" /\ shLoads[l].endAlive /\ ~shLoads[l].endAborted

\* how an uncancelled load ends: loading is false, and either the doctor
\* info and the schedules are its own or the general error is set; a step
\* that rejected was the last one started
EndsInResultOrError(l) ==
  LET L == shLoads[l]
  IN /\ ~L.left.overall
     /\ \/ /\ L.outcome = "applied"
           /\ L.left.doctorInfo = L.params.key /\ L.left.schedulesKey = L.params.key
           /\ L.failedAt = "none"
        \/ /\ L.outcome = "failed"
           /\ L.left.general # NoMessage
     /\ L.failedAt = "token" => L.started = {}
     /\ L.failedAt = "specialty" => L.started = {"specialty"}
     /\ L.failedAt = "doctor" => L.started = {"specialty", "doctor"}

AllSettled == \A l \in DOMAIN shLoads : shLoads[l].pc = "done"
\* the load the effect started last, i.e. the load for the latest parameters
LatestEffectLoad ==
  CHOOSE l \in DOMAIN shLoads :
    /\ shLoads[l].signal # "none"
    /\ \A k \in DOMAIN shLoads : k > l => shLoads[k].signal = "none"
ShowsLatest ==
  /\ shView.doctorInfo = shParams.key
  /\ ~shView.doctorSchedules.isNull
  /\ shView.doctorSchedules.key = shParams.key

\* C24: once all loads of a mounted hook have settled and the load for the
\* latest parameters has applied its results, doctorInfo and doctorSchedules
\* are those of the latest parameters, whatever the order of completion.
C24_SettledViewIsOfLatestParams ==
  (shAlive /\ shLoads # <<>> /\ AllSettled
     /\ shLoads[LatestEffectLoad].outcome = "applied")
    => ShowsLatest

\* C24, the part that holds: a load started by the effect applies its results
\* only while the hook is mounted with the parameters of that load, and when
\* no reload was started before the latest parameter change the settled view
\* is that of the latest parameters.
C24_EffectLoadAppliesOnlyCurrent ==
  /\ [][\A l \in DOMAIN shLoads :
          (shLoads[l].signal # "none" /\ shLoads[l].outcome # "applied"
             /\ shLoads'[l].outcome = "applied")
            => (shAlive /\ shLoads[l].params = shParams)]_vars
  /\ []((shAlive /\ shLoads # <<>> /\ AllSettled
           /\ shLoads[LatestEffectLoad].outcome = "applied"
           /\ \A l \in 1..LatestEffectLoad : shLoads[l].signal # "none")
          => ShowsLatest)
\* a parameter change cancelled a load in flight, every load has settled
\* and the load for the latest parameters has applied
C24_Witness ==
  /\ shAlive /\ AllSettled /\ Len(shLoads) >= 2
  /\ \A l \in DOMAIN shLoads : shLoads[l].signal # "none"
  /\ shLoads[1].outcome = "dropped"
  /\ shLoads[LatestEffectLoad].outcome = "applied"


\* ---- C22 ----
\* the first non-empty text of a list, the empty text when there is none
RECURSIVE FirstNonEmpty(_)
FirstNonEmpty(texts) ==
  IF texts = <<>> THEN <<>>
  ELSE IF Head(texts) # <<>> THEN Head(texts) ELSE FirstNonEmpty(Tail(texts))
TextOf(v) == IF v = Null THEN <<>> ELSE JsString(v)
\* the building code and the floor code of the drawn room
RoomBuilding == TextOf(fnIn.room.codigo_edificio)
RoomFloorCode ==
  IF fnIn.room.piso # Null THEN fnIn.room.piso
  ELSE IF fnIn.room.CD_PISO # Null THEN fnIn.room.CD_PISO
  ELSE fnIn.room.codigo_piso
BuildingInCatalog ==
  \E i \in 1..Len(fnIn.edificios) : TextOf(fnIn.edificios[i].codigo) = RoomBuilding
\* (a): the description the floor catalog of the room's building has under
\* the room's floor code
CatalogFloorText ==
  IF RoomBuilding # <<>> /\ RoomFloorCode # Null /\ fnIn.pisos[RoomBuilding].success
    THEN LET entries == fnIn.pisos[RoomBuilding].data
             hits == {i \in 1..Len(entries) :
                        TextOf(entries[i].codigo_piso) = TextOf(RoomFloorCode)}
         IN IF hits = {} THEN <<>>
            ELSE TextOf(entries[CHOOSE i \in hits : \A k \in hits : k <= i].descripcion_piso)
    ELSE <<>>
\* (b): the floor description of the normalized room
NormalizedFloorText == TextOf(NormalizarConsultorio(fnIn.room).des_piso)
\* (c): the raw DES_PISO, descripcion_piso when DES_PISO is absent
RawFloorText ==
  IF fnIn.room.DES_PISO # Null THEN TextOf(fnIn.room.DES_PISO)
  ELSE TextOf(fnIn.room.descripcion_piso)
\* (d): "Piso {code}" when the room has a floor code
LiteralFloorText ==
  IF RoomFloorCode # Null THEN <<"P", "i", "s", "o", " ">> \o TextOf(RoomFloorCode) ELSE <<>>

\* C22: the floor text of an emitted entry is the first non-empty of (a) the
\* description of the floor catalog of the room's building under the room's
\* floor code, (b) the room's normalized floor description, (c) the room's
\* raw DES_PISO, or descripcion_piso when DES_PISO is absent, (d) "Piso "
\* followed by the floor code when the room has one, and is empty when none
\* applies or the room is unknown; the building description is empty when
\* the building code of the room is not in the building catalog.
C22_FloorTextFallback ==
  fnOut.applied =>
    /\ fnIn.found =>
         fnOut.piso = FirstNonEmpty(<<CatalogFloorText, NormalizedFloorText,
                                      RawFloorText, LiteralFloorText>>)
    /\ ~fnIn.found => fnOut.piso = <<>>
    /\ (~fnIn.found \/ ~BuildingInCatalog) => fnOut.edificioDescripcion = <<>>
\* the room is known, its building is not in the building catalog, the floor
\* catalog of that building has a description for the floor and the room has
\* a description of its own
C22_Witness ==
  /\ fnOut.applied /\ fnIn.found
  /\ RoomBuilding = <<"2">> /\ ~BuildingInCatalog
  /\ CatalogFloorText = <<"C">>
  /\ NormalizedFloorText = <<"N">>
  /\ fnOut.piso = <<"C">>
  /\ fnOut.edificioDescripcion = <<>>


\* ---- C23 ----
InitialFetchesAnswered == agendasRes # Pending /\ \A n \in Catalogs : fan[n] # Pending
FloorFetchesAnswered == \A b \in Buildings : pisos[b].st # "pending"
\* the building codes the rooms of the answered room catalog refer to
ReferencedBuildings ==
  {TextOf(AsList(fan["consultorios"].data)[i].codigo_edificio) :
     i \in 1..Len(AsList(fan["consultorios"].data))} \ {<<>>}
\* the schedule list the entries are made from: that of the retry when one
\* was made, else that of the initial fetch
FinalAgendas ==
  IF agCall.who = "retry" THEN AsList(agCall.ret.data) ELSE AsList(agendasRes.data)

\* C23: the rooms are consulted for the floor fetches only after all five
\* initial fetches have answered and the entries are emitted only after every
\* floor fetch has answered; one floor fetch is made per distinct building
\* code of a room; and the value returned is a function of the answers alone,
\* whatever the order in which they arrived.
C23_JoinedBeforeUse ==
  /\ (oqPc \in {"retry", "pisos", "done"} \/ \E b \in Buildings : pisos[b].st # "none")
       => InitialFetchesAnswered
  /\ oqPc = "done" => FloorFetchesAnswered
  /\ oqPc \in {"pisos", "done"} =>
       \A b \in Buildings :
         pisos[b].invoked = IF b \in ReferencedBuildings THEN 1 ELSE 0
  /\ oqPc = "done" =>
       /\ oqOut.data =
            Emit(FinalAgendas, oqIn.codigoPrestador, oqIn.especialidadId,
                 AsList(fan["medicos"].data), AsList(fan["consultorios"].data),
                 [b \in ReferencedBuildings |-> pisos[b].res])
       /\ oqOut.success = (\A r \in {agendasRes} \cup {fan[n] : n \in Catalogs} : r.success)
\* two rooms of two buildings, both floor fetches answered, that of building
\* 1 with a failure and that of building 2 with its catalog, and an entry
\* carries the text of the catalog of building 2
C23_Witness ==
  /\ oqPc = "done"
  /\ ReferencedBuildings = Buildings
  /\ ~pisos[<<"1">>].res.success /\ pisos[<<"2">>].res.success
  /\ \E i \in 1..Len(oqOut.data) : oqOut.data[i].piso = <<"C", "2">>

\* ---- C30 ----
FloorLoadsSettled == \A l \in DOMAIN agFloorLoads : agFloorLoads[l].st # "pending"
FloorLoadsSucceeded == \A l \in DOMAIN agFloorLoads : agFloorLoads[l].st = "loaded"
FloorsOfSelected ==
  IF agFilters.edificioSeleccionado = NoneSelected THEN <<>>
  ELSE FloorCatalog(agFilters.edificioSeleccionado)

\* C30: once every floor load has settled (all of them with an answer), the
\* floor list is the catalog of the selected building, the empty list when
\* none is selected, whatever the order in which the requests completed.
C30_FloorsOfSelectedBuilding ==
  (FloorLoadsSettled /\ FloorLoadsSucceeded) => agState.pisos = FloorsOfSelected

\* C30, the part that holds: the list is empty or the catalog of a building
\* whose load has answered, and a settled view whose loads were all for the
\* selected building shows that building's catalog.
C30_FloorsOfSomeLoadedBuilding ==
  /\ \/ agState.pisos = <<>>
     \/ \E l \in DOMAIN agFloorLoads :
          agFloorLoads[l].st = "loaded" /\ agState.pisos = FloorCatalog(agFloorLoads[l].edificio)
  /\ (FloorLoadsSettled /\ FloorLoadsSucceeded /\ agFloorLoads # <<>>
        /\ \A l \in DOMAIN agFloorLoads :
             agFloorLoads[l].edificio = agFilters.edificioSeleccionado)
       => agState.pisos = FloorsOfSelected
====
